---- MODULE Spec2Model ----
(***************************************************************************)
(* Pipeline compiler of anime4k-wgpu (crates/build/src/pipelines):         *)
(* the physical texture allocator, the manifest validator and the          *)
(* pipeline compiler, as state machines over bounded inputs.               *)
(***************************************************************************)
EXTENDS Integers, Sequences, FiniteSets, TLC

(***************************************************************************)
(* Bounds of the model.                                                    *)
(***************************************************************************)
\* Longest list of texture lifetimes handed to the allocator; lifetimes
\* refer to pass indices 0 .. MaxLifetimes - 1.
MaxLifetimes == 3

\* Most passes of a manifest handed to validate.
MaxValidatedPasses == 2

\* Most passes of a manifest handed to compile.
MaxCompiledPasses == 3

\* Most passes of a manifest with samplers handed to compile.
MaxSampledPasses == 3

\* Most hook blocks of one source.
MaxHookBlocks == 2

\* Most characters of a text handed to the ScaleFactor parser.  The numbers
\* such texts denote stay below u32::MAX, so that the overflow error of
\* parse::<u32> is out of reach.
MaxTextLen == 5
MaxBodyLines == 3
MaxSourceLen == 7
MaxAccumulations == 2
MaxTextureSize == 3
MaxExecutedPasses == 3

(***************************************************************************)
(* Values of the program.                                                  *)
(***************************************************************************)
\* u32::MAX, the reserved id of the SOURCE texture.  The model checker's
\* integers are 32-bit signed, so the value 0xFFFFFFFF is written as the
\* signed reading of the same bit pattern; ids handed out by the allocator
\* are `len() as u32` of a vector and stay far below it.
SOURCE_ID == 0 - 1

\* ScaleFactor::new(numerator, denominator): a pair kept as written, never
\* reduced; derived PartialEq compares the two fields.
ScaleFactor(n, d) == [numerator |-> n, denominator |-> d]

\* The (width, height) scale of the SOURCE texture.
UnityScale == <<ScaleFactor(1, 1), ScaleFactor(1, 1)>>

\* Option<T>: None is the empty sequence, Some(x) a sequence of one.
None == <<>>
Some(x) == <<x>>

\* Vec::push
Push(s, e) == Append(s, e)

\* HashMap::insert(k, v): overwrites the value of an existing key.
MapInsert(m, k, v) == [x \in (DOMAIN m) \cup {k} |-> IF x = k THEN v ELSE m[x]]

\* The empty HashMap.
EmptyMap == [x \in {} |-> 0]

(***************************************************************************)
(* Inputs of the allocator.                                                *)
(***************************************************************************)
PassIndices == 0 .. (MaxLifetimes - 1)
\* Logical ids are unique within one pipeline: the k-th lifetime of a list
\* carries the k-th name.
LogicalNames == <<"TEMP1", "TEMP2", "TEMP3", "TEMP4", "TEMP5">>
\* Component count and (width, height) scale of the lifetimes: two component
\* counts, and 2/1 and 4/2, which denote the same ratio through different pairs.
TextureFormats ==
    { [components |-> 4, scale_factor |-> <<ScaleFactor(2, 1), ScaleFactor(2, 1)>>],
      [components |-> 1, scale_factor |-> <<ScaleFactor(2, 1), ScaleFactor(2, 1)>>],
      [components |-> 4, scale_factor |-> <<ScaleFactor(4, 2), ScaleFactor(4, 2)>>] }

\* The lifetimes that may stand at position k of the list: any order of
\* creation times, created_at <= last_used_at.
TextureLifetime(k) ==
    { [logical_id |-> LogicalNames[k], components |-> f.components, scale_factor |-> f.scale_factor,
       created_at |-> range[1], last_used_at |-> range[2]] :
        f \in TextureFormats,
        range \in { r \in PassIndices \X PassIndices : r[1] <= r[2] } }

VARIABLES
    texture_lifetimes,       \* the argument of assign_physical_textures, as far as the loop has read it
    physical_textures,       \* Vec<PhysicalTexture>
    texture_assignments,     \* HashMap<String, u32>
    physical_texture_slots,  \* Vec<Option<TextureLifetime>>
    alloc_pc                 \* "loop" while iterating, "done" after the return

allocVars == <<texture_lifetimes, physical_textures, texture_assignments,
               physical_texture_slots, alloc_pc>>

(***************************************************************************)
(* assign_physical_textures                                                *)
(***************************************************************************)
\* The SOURCE entry pushed before the loop.
SourceTexture == [id |-> SOURCE_ID, components |-> 4, scale_factor |-> UnityScale, is_source |-> TRUE]

\* Variants of the reuse condition: one that lets a slot go in the pass of
\* its occupant's last use, one that compares scale factors as ratios.
CanReuse_AtLastUse(existing, lifetime) ==
    /\ existing.last_used_at <= lifetime.created_at
    /\ existing.components = lifetime.components
    /\ existing.scale_factor = lifetime.scale_factor

CanReuse_ByRatio(existing, lifetime) ==
    /\ existing.last_used_at < lifetime.created_at
    /\ existing.components = lifetime.components
    /\ \A d \in 1 .. 2 :
          existing.scale_factor[d].numerator * lifetime.scale_factor[d].denominator
              = lifetime.scale_factor[d].numerator * existing.scale_factor[d].denominator

\* Variant of the reuse condition that leaves the lifetimes out.
CanReuse_AnyAge(existing, lifetime) ==
    /\ existing.components = lifetime.components
    /\ existing.scale_factor = lifetime.scale_factor

\* The reuse condition of the inner loop.
CanReuse(existing, lifetime) ==
    /\ existing.last_used_at < lifetime.created_at
    /\ existing.components = lifetime.components
    /\ existing.scale_factor = lifetime.scale_factor

\* A slot at which the inner loop breaks: an occupied slot that can be
\* reused, or an empty one.
SlotTaken(slot, lifetime) ==
    IF slot # None THEN CanReuse(slot[1], lifetime) ELSE TRUE

\* Variant of the scan that keeps the last slot that fits.
FirstFit_LastHit(slots, lifetime) ==
    LET hits == { i \in 1 .. Len(slots) : SlotTaken(slots[i], lifetime) }
    IN  IF hits = {} THEN 0 ELSE CHOOSE i \in hits : \A j \in hits : j <= i

\* The 1-based position at which the inner loop breaks, 0 when it runs to
\* the end of the slots.
FirstFit(slots, lifetime) ==
    LET hits == { i \in 1 .. Len(slots) : SlotTaken(slots[i], lifetime) }
    IN  IF hits = {} THEN 0 ELSE CHOOSE i \in hits : \A j \in hits : i <= j

\* State of the allocator before its loop.
AllocInit ==
    [physical_textures |-> <<SourceTexture>>,
     texture_assignments |-> MapInsert(EmptyMap, "SOURCE", SOURCE_ID),
     physical_texture_slots |-> <<>>]

\* Variant of the flag that never records a reuse.
IsReused_Never(slots, hit) == FALSE

\* is_reused: set only where the loop breaks at an occupied slot.
IsReused(slots, hit) == hit # 0 /\ slots[hit] # None

\* One iteration of the outer loop.
AssignOne(st, lifetime) ==
    LET slots == st.physical_texture_slots
        hit == FirstFit(slots, lifetime)
        is_reused == IsReused(slots, hit)
        physical_id == IF hit # 0 THEN hit - 1 ELSE Len(slots)
        slots2 == IF hit # 0
                  THEN [slots EXCEPT ![hit] = Some(lifetime)]
                  ELSE Push(slots, Some(lifetime))
        textures2 == IF ~is_reused
                     THEN Push(st.physical_textures,
                               [id |-> physical_id, components |-> lifetime.components,
                                scale_factor |-> lifetime.scale_factor, is_source |-> FALSE])
                     ELSE st.physical_textures
    IN  [physical_textures |-> textures2,
         texture_assignments |-> MapInsert(st.texture_assignments, lifetime.logical_id, physical_id),
         physical_texture_slots |-> slots2]

\* The whole function: the loop over the list, from the initial state.
RECURSIVE AssignFrom(_, _, _)
AssignFrom(st, lifetimes, k) ==
    IF k > Len(lifetimes) THEN st
    ELSE AssignFrom(AssignOne(st, lifetimes[k]), lifetimes, k + 1)

assign_physical_textures(lifetimes) == AssignFrom(AllocInit, lifetimes, 1)

(***************************************************************************)
(* PipelineSpec::validate                                                  *)
(***************************************************************************)
\* TextureBindingSpec, TextureOutput, SamplerBinding, Pass, PipelineSpec.
TextureBindingSpec(id, binding) == [id |-> id, binding |-> binding]

TextureOutput(id, binding, components, scale_factor) ==
    [id |-> id, binding |-> binding, components |-> components, scale_factor |-> scale_factor]

SamplerBinding(binding, filter_mode) == [binding |-> binding, filter_mode |-> filter_mode]

Pass(id, file, inputs, outputs, samplers) ==
    [id |-> id, file |-> file, inputs |-> inputs, outputs |-> outputs, samplers |-> samplers]

PipelineSpec(id, name, passes) == [id |-> id, name |-> name, passes |-> passes]

\* Result<(), PipelineValidationError>; pass indices are 0-based as in the
\* code, positions of sequences 1-based.
Ok == [kind |-> "Ok"]
EmptyId == [kind |-> "EmptyId"]
EmptyName == [kind |-> "EmptyName"]
NoPasses == [kind |-> "NoPasses"]
PassMissingInputs(i) == [kind |-> "PassMissingInputs", pass |-> i]
PassMissingOutputs(i) == [kind |-> "PassMissingOutputs", pass |-> i]
DuplicateBinding(i, binding) == [kind |-> "DuplicateBinding", pass |-> i, binding |-> binding]
ResultNotInLastPass(i) == [kind |-> "ResultNotInLastPass", pass |-> i]
TextureOverwritten(i, id) == [kind |-> "TextureOverwritten", pass |-> i, id |-> id]
InputTextureNotFound(i, id) == [kind |-> "InputTextureNotFound", pass |-> i, id |-> id]

\* The least element of a non-empty set of integers: where a scan stops.
First(S) == CHOOSE x \in S : \A y \in S : x <= y

\* The binding of every element of a list, in order.
BindingsOf(items) == [k \in 1 .. Len(items) |-> items[k].binding]

\* Variant of the first loop's test that looks at the inputs only.
PassIncomplete_InputsOnly(pass) == pass.inputs = <<>>

\* A pass the first loop returns an error for.
PassIncomplete(pass) == pass.inputs = <<>> \/ pass.outputs = <<>>

\* Variant of the binding scan that leaves the samplers out.
PassBindings_NoSamplers(pass) == BindingsOf(pass.inputs) \o BindingsOf(pass.outputs)

\* The order in which one pass's bindings are inserted into used_bindings:
\* inputs, then outputs, then samplers.
PassBindings(pass) ==
    BindingsOf(pass.inputs) \o BindingsOf(pass.outputs) \o BindingsOf(pass.samplers)

\* Positions at which used_bindings.insert returns false.
RepeatedBindings(pass) ==
    LET b == PassBindings(pass)
    IN  { k \in 1 .. Len(b) : \E j \in 1 .. (k - 1) : b[j] = b[k] }

\* Variant of the RESULT test without the comparison with the last index.
ResultMisplaced_AnyPass(passes, i) ==
    \E o \in 1 .. Len(passes[i].outputs) : passes[i].outputs[o].id = "RESULT"

\* The test of the third loop, for the pass at position i.
ResultMisplaced(passes, i) ==
    \E o \in 1 .. Len(passes[i].outputs) :
        passes[i].outputs[o].id = "RESULT" /\ (i - 1) # Len(passes) - 1

\* Every output of the pipeline in scan order, with the index of its pass.
RECURSIVE OutputsFrom(_, _)
OutputsFrom(passes, i) ==
    IF i > Len(passes) THEN <<>>
    ELSE [o \in 1 .. Len(passes[i].outputs) |->
             [pass |-> i - 1, id |-> passes[i].outputs[o].id, output |-> passes[i].outputs[o]]]
         \o OutputsFrom(passes, i + 1)

\* Variant of created_textures that starts empty.
CreatedBefore_NoSource(outs, k) == { outs[j].id : j \in 1 .. (k - 1) }

\* created_textures when the k-th output is reached: SOURCE and every
\* output scanned before.
CreatedBefore(outs, k) == {"SOURCE"} \cup { outs[j].id : j \in 1 .. (k - 1) }

\* Variant of available_textures that already holds the pass's own outputs.
AvailableAt_WithOwnOutputs(passes, i) ==
    {"SOURCE"} \cup UNION { { passes[j].outputs[o].id : o \in 1 .. Len(passes[j].outputs) } :
                             j \in 1 .. i }

\* available_textures when the inputs of the pass at position i are checked:
\* SOURCE and the outputs of the passes before it.
AvailableAt(passes, i) ==
    {"SOURCE"} \cup UNION { { passes[j].outputs[o].id : o \in 1 .. Len(passes[j].outputs) } :
                             j \in 1 .. (i - 1) }

\* Variant of the fifth loop that finds every input available.
MissingInputs_None(passes, i) == {}

\* Inputs of the pass at position i that are not available.
MissingInputs(passes, i) ==
    { k \in 1 .. Len(passes[i].inputs) : passes[i].inputs[k].id \notin AvailableAt(passes, i) }

validate(raw) ==
    LET passes == raw.passes
        n == Len(passes)
        incomplete == { i \in 1 .. n : PassIncomplete(passes[i]) }
        duplicated == { i \in 1 .. n : RepeatedBindings(passes[i]) # {} }
        misplaced == { i \in 1 .. n : ResultMisplaced(passes, i) }
        outs == OutputsFrom(passes, 1)
        overwrites == { k \in 1 .. Len(outs) : outs[k].id \in CreatedBefore(outs, k) }
        unresolved == { i \in 1 .. n : MissingInputs(passes, i) # {} }
    IN  IF raw.id = "" THEN EmptyId
        ELSE IF raw.name = "" THEN EmptyName
        ELSE IF n = 0 THEN NoPasses
        ELSE IF incomplete # {} THEN
            LET i == First(incomplete)
            IN  IF passes[i].inputs = <<>> THEN PassMissingInputs(i - 1)
                ELSE PassMissingOutputs(i - 1)
        ELSE IF duplicated # {} THEN
            LET i == First(duplicated)
            IN  DuplicateBinding(i - 1, PassBindings(passes[i])[First(RepeatedBindings(passes[i]))])
        ELSE IF misplaced # {} THEN ResultNotInLastPass(First(misplaced) - 1)
        ELSE IF overwrites # {} THEN
            LET k == First(overwrites) IN TextureOverwritten(outs[k].pass, outs[k].id)
        ELSE IF unresolved # {} THEN
            LET i == First(unresolved)
            IN  InputTextureNotFound(i - 1, passes[i].inputs[First(MissingInputs(passes, i))].id)
        ELSE Ok

(***************************************************************************)
(* PipelineCompiler                                                        *)
(***************************************************************************)
\* Ids of the inputs of a pass.
InputIdsOf(pass) == { pass.inputs[k].id : k \in 1 .. Len(pass.inputs) }

\* last_used_at of an output of the pass at position i (index i - 1): the
\* index of the last later pass that reads the id, else the pass's own.  A
\* variant stops at the first later pass that reads it, another leaves the
\* readers out.
LastUsedAt_Creation(passes, i, id) == i - 1

LastUsedAt_FirstReader(passes, i, id) ==
    LET readers == { j \in (i + 1) .. Len(passes) : id \in InputIdsOf(passes[j]) }
    IN  IF readers = {} THEN i - 1
        ELSE (CHOOSE j \in readers : \A h \in readers : j <= h) - 1

LastUsedAt(passes, i, id) ==
    LET readers == { j \in (i + 1) .. Len(passes) : id \in InputIdsOf(passes[j]) }
    IN  IF readers = {} THEN i - 1
        ELSE (CHOOSE j \in readers : \A h \in readers : h <= j) - 1

\* The lifetimes pushed for the pass at position i: one per output other
\* than SOURCE, in the order of the outputs.
LifetimesOfPass(passes, i) ==
    LET NotSource(output) == output.id # "SOURCE"
        outputs == SelectSeq(passes[i].outputs, NotSource)
    IN  [o \in 1 .. Len(outputs) |->
            [logical_id |-> outputs[o].id,
             components |-> outputs[o].components,
             scale_factor |-> <<outputs[o].scale_factor[1], outputs[o].scale_factor[2]>>,
             created_at |-> i - 1,
             last_used_at |-> LastUsedAt(passes, i, outputs[o].id)]]

RECURSIVE LifetimesFrom(_, _)
LifetimesFrom(passes, i) ==
    IF i > Len(passes) THEN <<>>
    ELSE LifetimesOfPass(passes, i) \o LifetimesFrom(passes, i + 1)

\* sort_by_key(|t| t.created_at): a stable sort, by insertion.
RECURSIVE InsertByCreatedAt(_, _)
InsertByCreatedAt(sorted, t) ==
    IF sorted = <<>> THEN <<t>>
    ELSE IF sorted[Len(sorted)].created_at <= t.created_at THEN Append(sorted, t)
    ELSE Append(InsertByCreatedAt(SubSeq(sorted, 1, Len(sorted) - 1), t), sorted[Len(sorted)])

RECURSIVE SortByCreatedAt(_)
SortByCreatedAt(list) ==
    IF list = <<>> THEN <<>>
    ELSE InsertByCreatedAt(SortByCreatedAt(SubSeq(list, 1, Len(list) - 1)), list[Len(list)])

collect_texture_lifetimes(spec) == SortByCreatedAt(LifetimesFrom(spec.passes, 1))

\* (components, scale) of a logical id: fixed for SOURCE, else those of the
\* first output of that id in scan order, else the fallback.
find_physical_texture_info(spec, logical_id) ==
    LET outs == OutputsFrom(spec.passes, 1)
        defs == { k \in 1 .. Len(outs) : outs[k].id = logical_id }
    IN  IF logical_id = "SOURCE" THEN <<4, UnityScale>>
        ELSE IF defs # {} THEN
            LET output == outs[First(defs)].output
            IN  <<output.components, <<output.scale_factor[1], output.scale_factor[2]>>>>
        ELSE <<4, UnityScale>>

\* ScaleFactor::to_f64: the quotient, kept as the fraction in lowest terms.
RECURSIVE Gcd(_, _)
Gcd(a, b) == IF b = 0 THEN a ELSE Gcd(b, a % b)
to_f64(scale) ==
    LET g == Gcd(scale.numerator, scale.denominator)
    IN  <<scale.numerator \div g, scale.denominator \div g>>

\* The input and output bindings of an executable pass.
InputBinding(spec, assignments, input) ==
    LET physical_texture == find_physical_texture_info(spec, input.id)
    IN  [logical_id |-> input.id,
         physical_id |-> assignments[input.id],
         binding |-> input.binding,
         components |-> physical_texture[1],
         scale_factor |-> physical_texture[2]]

OutputBinding(assignments, output) ==
    [logical_id |-> output.id,
     physical_id |-> assignments[output.id],
     binding |-> output.binding,
     components |-> output.components,
     scale_factor |-> <<output.scale_factor[1], output.scale_factor[2]>>]

\* The closure of create_executable_passes panics where it indexes the
\* assignment map with an id that has no entry, and where it unwraps the
\* first output of a pass without outputs.
PassPanics(assignments, pass) ==
    \/ \E k \in 1 .. Len(pass.inputs) : pass.inputs[k].id \notin DOMAIN assignments
    \/ \E k \in 1 .. Len(pass.outputs) : pass.outputs[k].id \notin DOMAIN assignments
    \/ pass.outputs = <<>>

\* The ExecutablePass built from a pass whose shader text the loader returned.
ExecutablePass(spec, assignments, pass, shader) ==
    [id |-> pass.id,
     shader |-> shader,
     compute_scale_factors |-> <<to_f64(pass.outputs[1].scale_factor[1]),
                                 to_f64(pass.outputs[1].scale_factor[2])>>,
     input_textures |-> [k \in 1 .. Len(pass.inputs) |-> InputBinding(spec, assignments, pass.inputs[k])],
     output_textures |-> [k \in 1 .. Len(pass.outputs) |-> OutputBinding(assignments, pass.outputs[k])],
     samplers |-> pass.samplers]

\* required_samplers: the filter modes of all samplers, each once, in order
\* of first occurrence.
\* required_samplers.contains(mode), and a variant that looks at the last
\* element only.
Contains_LastOnly(list, mode) == list # <<>> /\ list[Len(list)] = mode

Contains(list, mode) == \E j \in 1 .. Len(list) : list[j] = mode

RECURSIVE PushNew(_, _, _)
PushNew(list, samplers, k) ==
    IF k > Len(samplers) THEN list
    ELSE PushNew(IF Contains(list, samplers[k].filter_mode)
                 THEN list ELSE Push(list, samplers[k].filter_mode),
                 samplers, k + 1)

RECURSIVE RequiredSamplersFrom(_, _, _)
RequiredSamplersFrom(list, passes, i) ==
    IF i > Len(passes) THEN list
    ELSE RequiredSamplersFrom(PushNew(list, passes[i].samplers, 1), passes, i + 1)

required_samplers(spec) == RequiredSamplersFrom(<<>>, spec.passes, 1)

(***************************************************************************)
(* Manifests handed to validate.                                           *)
(***************************************************************************)
\* Format of the outputs of these manifests; validate does not read it.
PlainScale == <<ScaleFactor(2, 1), ScaleFactor(2, 1)>>

In(id, binding) == TextureBindingSpec(id, binding)
Out(id, binding) == TextureOutput(id, binding, 4, PlainScale)
Linear(binding) == SamplerBinding(binding, "Linear")

\* Input lists of a pass: none, SOURCE, SOURCE and a temporary, and two
\* inputs on one slot.
ValidatedInputs ==
    { <<>>,
      <<In("SOURCE", 0)>>,
      <<In("SOURCE", 0), In("A", 1)>>,
      <<In("SOURCE", 0), In("SOURCE", 0)>> }

\* Output lists of a pass: none, a temporary, RESULT, SOURCE, one id twice,
\* and two outputs on slot 1 (which an input may hold as well).
ValidatedOutputs ==
    { <<>>,
      <<Out("A", 2)>>,
      <<Out("RESULT", 2)>>,
      <<Out("SOURCE", 2)>>,
      <<Out("A", 2), Out("A", 3)>>,
      <<Out("B", 1), Out("RESULT", 1)>> }

\* Sampler lists of a pass: none, one on slot 3 (which an output may hold),
\* one on slot 0 (which an input may hold), two on one slot.
ValidatedSamplers ==
    { <<>>, <<Linear(3)>>, <<Linear(0)>>, <<Linear(4), Linear(4)>> }

ValidatedPasses == ValidatedInputs \X ValidatedOutputs \X ValidatedSamplers

\* The passes of a manifest of n passes with the given lists per pass.
ValidatedPassList(n, ios) ==
    [i \in 1 .. n |-> Pass("pass", "pass.wgsl", ios[i][1], ios[i][2], ios[i][3])]

\* Id and name of a manifest: both, or one of them or both empty.  The
\* manifests that lack one have at most one pass.
Headers ==
    { <<"test_pipeline", "Test Pipeline">>, <<"", "Test Pipeline">>, <<"test_pipeline", "">>, <<"", "">> }

(***************************************************************************)
(* Manifests handed to compile.  compile does not call validate, so they   *)
(* include manifests validate rejects.                                     *)
(***************************************************************************)
\* Input lists of a pass.
CompiledInputs ==
    { <<In("SOURCE", 0)>>,
      <<In("A", 0)>>,
      <<In("SOURCE", 0), In("B", 1)>> }

\* Output lists of a pass: none, a temporary or RESULT of 4 components at
\* scale 2/1, A of 1 component at scale 1/1, two outputs, and SOURCE with
\* another output.
CompiledOutputs ==
    { <<>>,
      <<Out("A", 2)>>,
      <<Out("B", 2)>>,
      <<Out("RESULT", 2)>>,
      <<TextureOutput("A", 2, 1, UnityScale)>>,
      <<Out("B", 2), Out("A", 3)>>,
      <<Out("SOURCE", 2), Out("B", 3)>> }

PassIds == <<"pass1", "pass2", "pass3", "pass4", "pass5">>
PassFiles == <<"pass1.wgsl", "pass2.wgsl", "pass3.wgsl", "pass4.wgsl", "pass5.wgsl">>

\* The manifest of n passes with the given (inputs, outputs) per pass.
CompiledSpec(n, io) ==
    PipelineSpec("test_pipeline", "Test Pipeline",
                 [i \in 1 .. n |-> Pass(PassIds[i], PassFiles[i], io[i][1], io[i][2], <<>>)])

(***************************************************************************)
(* Manifests whose passes declare samplers, handed to compile.             *)
(***************************************************************************)
Nearest(binding) == SamplerBinding(binding, "Nearest")

\* Sampler lists of a pass: none, one of either mode, two of different and
\* of equal modes, and one mode around the other.
SampledSamplers ==
    { <<>>,
      <<Nearest(3)>>,
      <<Linear(3)>>,
      <<Linear(3), Nearest(4)>>,
      <<Nearest(3), Nearest(4)>>,
      <<Linear(3), Nearest(4), Linear(5)>> }

\* Output lists of a pass: a temporary, or none.
SampledOutputs == { <<Out("A", 2)>>, <<>> }

\* The manifest of n passes reading SOURCE with the given (outputs,
\* samplers) per pass.
SampledSpec(n, os) ==
    PipelineSpec("test_pipeline", "Test Pipeline",
                 [i \in 1 .. n |-> Pass(PassIds[i], PassFiles[i], <<In("SOURCE", 0)>>, os[i][1], os[i][2])])

(***************************************************************************)
(* ScaleFactor as text: FromStr and Display.  A text is a sequence of       *)
(* characters.                                                             *)
(***************************************************************************)
\* The decimal digits; the digit of value v is DecimalDigits[v + 1].
DecimalDigits == <<"0", "1", "2", "3", "4", "5", "6", "7", "8", "9">>
IsDigit(c) == \E v \in 1 .. 10 : DecimalDigits[v] = c
DigitValue(c) == (CHOOSE v \in 1 .. 10 : DecimalDigits[v] = c) - 1

RECURSIVE DecimalValue(_)
DecimalValue(digits) ==
    IF digits = <<>> THEN 0
    ELSE 10 * DecimalValue(SubSeq(digits, 1, Len(digits) - 1)) + DigitValue(digits[Len(digits)])

\* str::parse::<u32>: an optional leading plus sign, then one or more
\* digits and nothing else; no sign alone, no minus sign, no white space.
parse_u32(t) ==
    LET digits == IF t # <<>> /\ t[1] = "+" THEN Tail(t) ELSE t
    IN  IF digits = <<>> \/ \E k \in 1 .. Len(digits) : ~IsDigit(digits[k])
        THEN None
        ELSE Some(DecimalValue(digits))

\* s.contains('/') and s.split('/').
ContainsChar(t, c) == \E k \in 1 .. Len(t) : t[k] = c

RECURSIVE Split(_, _)
Split(t, c) ==
    IF ~ContainsChar(t, c) THEN <<t>>
    ELSE LET k == First({ j \in 1 .. Len(t) : t[j] = c })
         IN  <<SubSeq(t, 1, k - 1)>> \o Split(SubSeq(t, k + 1, Len(t)), c)

\* Results of from_str.
Parsed(scale) == [kind |-> "Ok", value |-> scale]
ScaleFactorParseError(variant) == [kind |-> "Err", error |-> variant]

\* The denominator from_str rejects.
DenominatorRejected(denominator) == denominator = 0

from_str(t) ==
    IF ContainsChar(t, "/") THEN
        LET parts == Split(t, "/")
            numerator == parse_u32(parts[1])
            denominator == parse_u32(parts[2])
        IN  IF Len(parts) # 2 THEN ScaleFactorParseError("InvalidFormat")
            ELSE IF numerator = None THEN ScaleFactorParseError("InvalidNumerator")
            ELSE IF denominator = None THEN ScaleFactorParseError("InvalidDenominator")
            ELSE IF DenominatorRejected(denominator[1]) THEN ScaleFactorParseError("ZeroDenominator")
            ELSE Parsed(ScaleFactor(numerator[1], denominator[1]))
    ELSE
        LET numerator == parse_u32(t)
        IN  IF numerator = None THEN ScaleFactorParseError("InvalidNumerator")
            ELSE Parsed(ScaleFactor(numerator[1], 1))

\* The decimal text of a number, as {} writes it.
RECURSIVE ToDecimal(_)
ToDecimal(n) ==
    IF n < 10 THEN <<DecimalDigits[n + 1]>>
    ELSE Append(ToDecimal(n \div 10), DecimalDigits[(n % 10) + 1])

\* Variants of Display: one that writes the numerator only.
Display_NumeratorOnly(scale) == ToDecimal(scale.numerator)

Display(scale) ==
    IF scale.denominator = 1 THEN ToDecimal(scale.numerator)
    ELSE ToDecimal(scale.numerator) \o <<"/">> \o ToDecimal(scale.denominator)

\* The characters of the texts handed to the parser, and the texts.
TextAlphabet == { "0", "1", "2", "/", "+", "x", " " }
Texts == UNION { [1 .. n -> TextAlphabet] : n \in 0 .. MaxTextLen }

(***************************************************************************)
(* MpvHook::new.  A hook source is a sequence of lines; a line is read as   *)
(* the directive it starts with.  A text that is searched for a part (the  *)
(* DESC content, an error message) is the sequence of its parts.           *)
(***************************************************************************)
\* Lines of a hook source.  A WIDTH or HEIGHT line that the scale factor
\* pattern matches has a base texture name and, optionally, a multiplier;
\* one it does not match is malformed.
DescLine(content) == [directive |-> "DESC", content |-> content]
ScaleLine(axis, base, ratio) == [directive |-> axis, matched |-> TRUE, base |-> base, ratio |-> ratio]
MalformedScaleLine(axis) == [directive |-> axis, matched |-> FALSE]
BindLine(content) == [directive |-> "BIND", content |-> content]
SaveLine(content) == [directive |-> "SAVE", content |-> content]
HookLine(content) == [directive |-> "HOOK", content |-> content]
ComponentsLine(content) == [directive |-> "COMPONENTS", content |-> content]
WhenLine == [directive |-> "WHEN"]
CodeLine(text) == [directive |-> "", text |-> text]

\* The error MpvHook::new returns, with its message.
InvalidData(message) == [kind |-> "Err", error |-> message]

new_scale_factor_map == MapInsert(MapInsert(MapInsert(EmptyMap, "MAIN", 1), "HOOKED", 1), "source", 1)

\* The locals of new before the first line.
HookLocals == [name |-> <<>>, scale_factor |-> 0, inputs |-> <<>>, output |-> "", code |-> <<>>]

\* The test that no scale line was read yet: a scale factor of 0 stands
\* for none.
ScaleUnset(locals) == locals.scale_factor = 0

\* One WIDTH or HEIGHT line.  The product is a u32 product; the multipliers
\* and scales at hand keep it far below u32::MAX.
ReadScaleLine(locals, line, scale_factor_map) ==
    IF ~line.matched THEN InvalidData(<<"Invalid scale factor line">>)
    ELSE IF line.base \notin DOMAIN scale_factor_map THEN InvalidData(<<"Unknown base texture name">>)
    ELSE LET ratio == IF line.ratio = None THEN 1 ELSE line.ratio[1]
             current_scale_factor == scale_factor_map[line.base] * ratio
         IN  IF ScaleUnset(locals)
             THEN [kind |-> "Ok", locals |-> [locals EXCEPT !.scale_factor = current_scale_factor]]
             ELSE IF locals.scale_factor # current_scale_factor
             THEN InvalidData(<<"Inconsistent scale factors">>)
             ELSE [kind |-> "Ok", locals |-> locals]

\* One line of the loop over the source.
ReadLine(locals, line, scale_factor_map) ==
    IF line.directive = "DESC" THEN [kind |-> "Ok", locals |-> [locals EXCEPT !.name = line.content]]
    ELSE IF line.directive \in { "WIDTH", "HEIGHT" } THEN ReadScaleLine(locals, line, scale_factor_map)
    ELSE IF line.directive = "BIND" THEN
        [kind |-> "Ok",
         locals |-> [locals EXCEPT !.inputs = Push(locals.inputs,
                        IF line.content = "MAIN" THEN "source" ELSE line.content)]]
    ELSE IF line.directive = "SAVE" THEN
        [kind |-> "Ok",
         locals |-> [locals EXCEPT !.output = IF line.content = "MAIN" THEN "dest" ELSE line.content]]
    ELSE IF line.directive = "HOOK" THEN
        IF line.content # "MAIN" THEN InvalidData(<<"Unsupported hook type">>)
        ELSE [kind |-> "Ok", locals |-> locals]
    ELSE IF line.directive = "COMPONENTS" THEN
        IF line.content # "4" THEN InvalidData(<<"Unsupported number of components">>)
        ELSE [kind |-> "Ok", locals |-> locals]
    ELSE IF line.directive = "WHEN" THEN [kind |-> "Ok", locals |-> locals]
    ELSE [kind |-> "Ok", locals |-> [locals EXCEPT !.code = Push(locals.code, line.text)]]

\* The loop: the locals after the last line, or the first error.
RECURSIVE ReadLines(_, _, _, _)
ReadLines(locals, source, k, scale_factor_map) ==
    IF k > Len(source) THEN [kind |-> "Ok", locals |-> locals]
    ELSE LET read == ReadLine(locals, source[k], scale_factor_map)
         IN  IF read.kind = "Err" THEN read
             ELSE ReadLines(read.locals, source, k + 1, scale_factor_map)

\* The stage type a name stands for.
StageType(name) ==
    IF Contains(name, "-Conv-") THEN "Conv"
    ELSE IF Contains(name, "-Depth-to-Space") THEN "DepthToSpace"
    ELSE "Unknown"

\* The inputs of a hook that the map does not hold, by position.
UnknownInputs(inputs, scale_factor_map) ==
    { k \in 1 .. Len(inputs) : inputs[k] \notin DOMAIN scale_factor_map }

\* The map the loop over the inputs looks them up in: the map as handed
\* in, the output being registered after the loop.  A variant registers the
\* output first.
InputLookupMap_OutputFirst(locals, scale_factor_map) ==
    MapInsert(scale_factor_map, locals.output, locals.scale_factor)

InputLookupMap(locals, scale_factor_map) == scale_factor_map

\* needs_sampler and needs_bound after the loop over the inputs, all of
\* them in the map: some input is at another scale than the hook, some
\* input is at the scale of the hook.  A variant asks it of every input.
needs_sampler(inputs, scale_factor_map, scale_factor) ==
    \E k \in 1 .. Len(inputs) : scale_factor_map[inputs[k]] # scale_factor

needs_bound_EveryInput(inputs, scale_factor_map, scale_factor) ==
    \A k \in 1 .. Len(inputs) : scale_factor_map[inputs[k]] = scale_factor

needs_bound(inputs, scale_factor_map, scale_factor) ==
    \E k \in 1 .. Len(inputs) : scale_factor_map[inputs[k]] = scale_factor

\* The map when the loop over the lines is left: the loop only reads it.
\* A variant has the output of the block registered by then.
MapAfterLines_Registered(locals, scale_factor_map) ==
    MapInsert(scale_factor_map, locals.output, locals.scale_factor)

MapAfterLines(locals, scale_factor_map) == scale_factor_map

\* MpvHook::new: the hook and the map with the output registered, or the
\* error and the map as the call leaves it.
MpvHook_new(source, scale_factor_map) ==
    LET read == ReadLines(HookLocals, source, 1, scale_factor_map)
    IN  IF read.kind = "Err"
        THEN [kind |-> "Err", error |-> read.error, scale_factor_map |-> scale_factor_map]
        ELSE LET locals == read.locals
                 lookup == InputLookupMap(locals, scale_factor_map)
                 unknown == UnknownInputs(locals.inputs, lookup)
                 Failed(message) ==
                     [kind |-> "Err", error |-> message,
                      scale_factor_map |-> MapAfterLines(locals, scale_factor_map)]
             IN  IF StageType(locals.name) = "Unknown" THEN Failed(<<"Unknown hook type">>)
                 ELSE IF locals.name = <<>> THEN Failed(<<"No name specified">>)
                 ELSE IF locals.inputs = <<>> THEN Failed(<<"No inputs specified">>)
                 ELSE IF locals.output = "" THEN Failed(<<"No output specified">>)
                 ELSE IF locals.scale_factor = 0 THEN Failed(<<"No scale factor specified">>)
                 ELSE IF unknown # {}
                 THEN Failed(<<"Unknown input texture: ", locals.inputs[First(unknown)]>>)
                 ELSE [kind |-> "Ok",
                       hook |-> [name |-> locals.name,
                                 scale_factor |-> locals.scale_factor,
                                 needs_sampler |-> needs_sampler(locals.inputs, lookup, locals.scale_factor),
                                 needs_bound |-> needs_bound(locals.inputs, lookup, locals.scale_factor),
                                 inputs |-> locals.inputs,
                                 output |-> locals.output,
                                 type |-> StageType(locals.name),
                                 code |-> locals.code],
                       scale_factor_map |-> MapInsert(MapAfterLines(locals, scale_factor_map),
                                                      locals.output, locals.scale_factor)]

(***************************************************************************)
(* WgslStageShader::new and convert_conv_hook_code.  A line of the hook's  *)
(* code, trimmed, is read as the pattern it matches, with the groups the  *)
(* pattern captures; a line that matches none keeps its text only.  The    *)
(* shader text is the sequence of the pieces written.                      *)
(***************************************************************************)
\* #define name(x_off, y_off) (...texture_texOff(vec2(x_off, y_off) [* fraction])...)
GoMacro(text, name, texture, fraction, sign) ==
    [pattern |-> "go_macro", text |-> text, name |-> name, texture |-> texture,
     fraction |-> fraction, sign |-> sign]
\* #define name (max(sign(texture_tex(pos)), 0.0))
GMacroRelu(text, name, texture, sign) ==
    [pattern |-> "g_macro_relu", text |-> text, name |-> name, texture |-> texture, sign |-> sign]
EntrypointBegin == [pattern |-> "entrypoint_begin", text |-> "vec4 hook() {"]
EntrypointEnd == [pattern |-> "entrypoint_end", text |-> "}"]
\* [vec4 ]result [+]= mat4(weights) * func[(x.0, y.0)];
ResultAddProd(text, decl, weights, func, offsets) ==
    [pattern |-> "result_add_prod", text |-> text, decl |-> decl, weights |-> weights,
     func |-> func, offsets |-> offsets]
\* result += vec4(weights);
ResultAddVec(text, weights) == [pattern |-> "result_add_vec", text |-> text, weights |-> weights]
ReturnAsIs == [pattern |-> "return_as_is", text |-> "return result;"]
\* return result[ * factor] + MAIN_tex(MAIN_pos);
ReturnOverlay(text, factor) == [pattern |-> "return_overlay", text |-> text, factor |-> factor]
Comment(text) == [pattern |-> "", text |-> text, comment |-> TRUE]
EmptyLine == [pattern |-> "", text |-> "", comment |-> FALSE]
\* A line no pattern matches that is neither a comment nor empty.
OtherLine(text) == [pattern |-> "", text |-> text, comment |-> FALSE]

\* A line of the code as written, with the white space around it, and
\* what trim leaves of it.
Indented(lead, trimmed) == [lead |-> lead, trimmed |-> trimmed]
Trim(line) == line.trimmed

\* The state of the loop over the lines, and its results.
Translating(code, func_to_scale_factor) ==
    [kind |-> "Ok", code |-> code, func_to_scale_factor |-> func_to_scale_factor]
TranslationError(message) == [kind |-> "Err", error |-> message]

\* What a line that is neither matched, nor a comment, nor empty leads to:
\* the error with the name of the hook and the line; a variant skips it.
Unexpected_Skipped(source, line, st) == st

Unexpected(source, line, st) ==
    TranslationError(<<"Unexpected line in ">> \o source.name \o <<" shader code: ", line.text>>)

\* The bounds check around an offset access at equal scale.  A variant
\* leaves out the check against the bound.
BoundChecked_LowerOnly(x_offset, y_offset) ==
    LET needs_neg_check == x_offset < 0 \/ y_offset < 0
    IN  IF needs_neg_check THEN <<"max", x_offset, y_offset>> ELSE <<"pos">>

BoundChecked(x_offset, y_offset) ==
    LET needs_neg_check == x_offset < 0 \/ y_offset < 0
        needs_pos_check == x_offset > 0 \/ y_offset > 0
    IN  IF needs_neg_check /\ needs_pos_check THEN <<"clamp", x_offset, y_offset>>
        ELSE IF needs_neg_check THEN <<"max", x_offset, y_offset>>
        ELSE IF needs_pos_check THEN <<"min", x_offset, y_offset>>
        ELSE <<"pos">>

\* The position the written argument of an accessor stands for at pixel
\* pos, bound being the dimensions of the output minus one: clamp, max and
\* min act on each axis.
Min(a, b) == IF a <= b THEN a ELSE b
Max(a, b) == IF a >= b THEN a ELSE b
AccessedPosition(at, pos, bound) ==
    IF at[1] = "clamp"
    THEN <<Min(Max(pos[1] + at[2], 0), bound[1]), Min(Max(pos[2] + at[3], 0), bound[2])>>
    ELSE IF at[1] = "max" THEN <<Max(pos[1] + at[2], 0), Max(pos[2] + at[3], 0)>>
    ELSE IF at[1] = "min" THEN <<Min(pos[1] + at[2], bound[1]), Min(pos[2] + at[3], bound[2])>>
    ELSE pos

\* The test of a macro against the scales: a fraction goes with a texture
\* at another scale than the hook, none with a texture at its scale.  A
\* variant lets a fraction pass at any scale.
MacroMismatch_FractionAnywhere(fractional, target_scale_factor, scale_factor) ==
    ~fractional /\ target_scale_factor # scale_factor

MacroMismatch(fractional, target_scale_factor, scale_factor) ==
    IF fractional THEN target_scale_factor = scale_factor
    ELSE target_scale_factor # scale_factor

\* One line of the loop of convert_conv_hook_code.
ConvertLine(source, scale_factor_map, st, line) ==
    IF line.pattern \in { "go_macro", "g_macro_relu" } THEN
        LET texture_name == IF line.texture = "MAIN" THEN "source" ELSE line.texture
            fractional == line.pattern = "go_macro" /\ line.fraction # None
        IN  IF texture_name \notin DOMAIN scale_factor_map
            THEN TranslationError(<<"Unknown texture: ", texture_name>>)
            ELSE IF MacroMismatch(fractional, scale_factor_map[texture_name], source.scale_factor)
            THEN TranslationError(
                    IF fractional
                    THEN <<"Fraction should only be used for textures with different scale factors">>
                    ELSE IF line.pattern = "go_macro"
                    THEN <<"Fraction should be used for textures with different scale factors">>
                    ELSE <<"Non-offset macros should only be used for textures with the same scale factor">>)
            ELSE Translating(
                    Push(st.code, [fn |-> line.name, texture |-> texture_name,
                                   sampled |-> IF fractional THEN line.fraction ELSE None,
                                   sign |-> line.sign]),
                    MapInsert(st.func_to_scale_factor, line.name, scale_factor_map[texture_name]))
    ELSE IF line.pattern = "entrypoint_begin" THEN
        Translating(st.code \o <<[fn |-> "main", checked |-> TRUE, output |-> source.output],
                                 [fn |-> "main_unchecked", checked |-> FALSE],
                                 [open |-> "process"]>>,
                    st.func_to_scale_factor)
    ELSE IF line.pattern = "entrypoint_end" THEN
        Translating(Push(st.code, [close |-> "}"]), st.func_to_scale_factor)
    ELSE IF line.pattern = "result_add_prod" THEN
        IF line.func \notin DOMAIN st.func_to_scale_factor
        THEN TranslationError(<<"Unknown function: ", line.func>>)
        ELSE LET func_scale_factor == st.func_to_scale_factor[line.func]
                 decl == IF line.decl
                         THEN (IF source.needs_bound THEN <<[let |-> "bound", output |-> source.output]>> ELSE <<>>)
                              \o (IF source.needs_sampler THEN <<[let |-> "uv_pos", output |-> source.output]>> ELSE <<>>)
                              \o <<[var |-> "result"]>>
                         ELSE <<>>
             IN  IF line.offsets # None
                 THEN Translating(
                        st.code \o decl \o
                        <<[add |-> "mat4x4f", weights |-> line.weights, func |-> line.func,
                           at |-> IF func_scale_factor # source.scale_factor
                                  THEN <<"uv_pos", line.offsets[1][1], line.offsets[1][2]>>
                                  ELSE BoundChecked(line.offsets[1][1], line.offsets[1][2])]>>,
                        st.func_to_scale_factor)
                 ELSE IF func_scale_factor # source.scale_factor
                 THEN TranslationError(<<"Non-offset macros should only be used for textures with the same scale factor">>)
                 ELSE Translating(
                        st.code \o decl \o
                        <<[add |-> "mat4x4f", weights |-> line.weights, func |-> line.func, at |-> <<"pos">>]>>,
                        st.func_to_scale_factor)
    ELSE IF line.pattern = "result_add_vec" THEN
        Translating(Push(st.code, [add |-> "vec4f", weights |-> line.weights]), st.func_to_scale_factor)
    ELSE IF line.pattern = "return_as_is" THEN
        Translating(Push(st.code, [store |-> source.output, overlay |-> None]), st.func_to_scale_factor)
    ELSE IF line.pattern = "return_overlay" THEN
        Translating(Push(st.code, [store |-> source.output,
                                   overlay |-> Some(<<line.factor,
                                        IF source.scale_factor = 1 THEN "textureLoad" ELSE "textureSampleLevel">>)]),
                    st.func_to_scale_factor)
    ELSE IF line.comment THEN st
    ELSE IF line.text = "" THEN st
    ELSE Unexpected(source, line, st)

\* The loop: the first error ends it.
RECURSIVE ConvertLines(_, _, _, _)
ConvertLines(source, scale_factor_map, st, k) ==
    IF k > Len(source.code) THEN st
    ELSE LET next == ConvertLine(source, scale_factor_map, st, Trim(source.code[k]))
         IN  IF next.kind = "Err" THEN next
             ELSE ConvertLines(source, scale_factor_map, next, k + 1)

\* The lines written before the loop: the header and the bindings.
ShaderHead(source) ==
    <<[layer |-> source.name, inputs |-> source.inputs, output |-> source.output,
       scale_factor |-> source.scale_factor]>>
    \o [i \in 1 .. Len(source.inputs) |-> [binding |-> i - 1, texture |-> source.inputs[i]]]
    \o <<[binding |-> Len(source.inputs), storage |-> source.output]>>
    \o (IF source.needs_sampler THEN <<[binding |-> Len(source.inputs) + 1, sampler |-> "input_sampler"]>>
        ELSE <<>>)

\* convert_conv_hook_code: the shader text, or the first error.
convert_conv_hook_code(source, scale_factor_map) ==
    LET done == ConvertLines(source, scale_factor_map, Translating(ShaderHead(source), EmptyMap), 1)
    IN  IF done.kind = "Err" THEN done ELSE [kind |-> "Ok", code |-> done.code]

\* WgslStageShader::new: the stage of a hook, or the translation error.
WgslStageShader_new(source, scale_factor_map) ==
    LET converted == IF source.type = "Conv"
                     THEN convert_conv_hook_code(source, scale_factor_map)
                     ELSE [kind |-> "Ok", channel_count |-> Len(source.inputs)]
        inputs == [i \in 1 .. Len(source.inputs) |->
                      <<i - 1, IF source.inputs[i] = "source" THEN "SOURCE" ELSE source.inputs[i]>>]
    IN  IF converted.kind = "Err" THEN converted
        ELSE [kind |-> "Ok",
              shader |-> [name |-> IF source.output = "dest" THEN "result" ELSE source.output,
                          type |-> [x \in { "stage" } \cup (DOMAIN converted \ { "kind" }) |->
                                       IF x = "stage" THEN source.type ELSE converted[x]],
                          source |-> source,
                          inputs |-> inputs,
                          output |-> <<Len(inputs), IF source.output = "dest" THEN "RESULT" ELSE source.output>>,
                          sampler |-> IF source.scale_factor > 1 THEN Some(Len(inputs) + 1) ELSE None,
                          scale_factor |-> IF source.scale_factor > 1
                                           THEN ToDecimal(source.scale_factor) ELSE <<"1">>]]

\* The Pass cnn_glsl_to_executable_pipeline pushes for a stage.
StagePass(wgsl_shader, pass_index) ==
    LET filename == IF wgsl_shader.type.stage = "Conv"
                    THEN <<"pass_">> \o ToDecimal(pass_index) \o <<".wgsl">>
                    ELSE <<"depth_to_space_in">> \o ToDecimal(Len(wgsl_shader.inputs) - 1)
                         \o <<"x">> \o wgsl_shader.scale_factor \o <<".wgsl">>
        scale == ScaleFactor(parse_u32(wgsl_shader.scale_factor)[1], 1)
    IN  Pass(<<"Pass ">> \o ToDecimal(pass_index + 1),
             filename,
             [i \in 1 .. Len(wgsl_shader.inputs) |->
                 TextureBindingSpec(wgsl_shader.inputs[i][2], wgsl_shader.inputs[i][1])],
             <<TextureOutput(wgsl_shader.output[2], wgsl_shader.output[1], 4, <<scale, scale>>)>>,
             IF wgsl_shader.sampler = None THEN <<>>
             ELSE <<SamplerBinding(wgsl_shader.sampler[1], "Linear")>>)

(***************************************************************************)
(* MpvHook::parse_mpv_hooks.  The source is a sequence of characters, the  *)
(* prefix "//!DESC " being one of them; a block is the text pushed for it. *)
(***************************************************************************)
\* str::lines: the pieces between line feeds, each without its line feed
\* and without a carriage return right before that line feed; what follows
\* the last line feed is a line when it is not empty.
RECURSIVE lines(_)
lines(t) ==
    LET feeds == { k \in 1 .. Len(t) : t[k] = "\n" }
    IN  IF t = <<>> THEN <<>>
        ELSE IF feeds = {} THEN <<t>>
        ELSE LET k == First(feeds)
                 piece == SubSeq(t, 1, k - 1)
                 line == IF piece # <<>> /\ piece[Len(piece)] = "\r"
                         THEN SubSeq(piece, 1, Len(piece) - 1) ELSE piece
             IN  <<line>> \o lines(SubSeq(t, k + 1, Len(t)))

\* line.starts_with("//!DESC "); a variant finds the prefix anywhere.
StartsWithDesc_Anywhere(line) == \E k \in 1 .. Len(line) : line[k] = "//!DESC "

StartsWithDesc(line) == line # <<>> /\ line[1] = "//!DESC "

\* The loop over the lines, from line k on, with the blocks pushed and the
\* block at hand; then the push of the last block.
RECURSIVE SplitLines(_, _, _, _)
SplitLines(source_lines, k, pushed, current_hook) ==
    IF k > Len(source_lines)
    THEN IF current_hook # <<>> THEN Push(pushed, current_hook) ELSE pushed
    ELSE LET line == source_lines[k]
         IN  IF StartsWithDesc(line)
             THEN SplitLines(source_lines, k + 1,
                             IF current_hook # <<>> THEN Push(pushed, current_hook) ELSE pushed,
                             line \o <<"\n">>)
             ELSE SplitLines(source_lines, k + 1, pushed,
                             IF current_hook # <<>> THEN current_hook \o line \o <<"\n">>
                             ELSE current_hook)

parse_mpv_hooks(source) == SplitLines(lines(source), 1, <<>>, <<>>)

\* The characters of a hook file.
SourceAlphabet == { "//!DESC ", "a", "\n", "\r" }

(***************************************************************************)
(* Hook blocks handed to MpvHook::new.                                     *)
(***************************************************************************)
\* DESC contents: a convolution and an unknown stage.
HookNames ==
    { <<"Anime4K-v4.0-Upscale", "-Conv-", "4x3x3x3">>,
      <<"Anime4K-v4.0-Upscale">> }

\* BIND lists: MAIN, an output of another block, MAIN and one more.
HookBinds == { <<"MAIN">>, <<"conv1">>, <<"MAIN", "conv2">> }

\* SAVE contents.
HookSaves == { "conv1", "conv2", "MAIN" }

\* What follows WIDTH or HEIGHT: MAIN, MAIN times 2, MAIN times 0, an
\* output of another block with and without multiplier.
HookScales ==
    { [matched |-> TRUE, base |-> "MAIN", ratio |-> None],
      [matched |-> TRUE, base |-> "MAIN", ratio |-> Some(2)],
      [matched |-> TRUE, base |-> "MAIN", ratio |-> Some(0)],
      [matched |-> TRUE, base |-> "conv1", ratio |-> None],
      [matched |-> TRUE, base |-> "conv1", ratio |-> Some(2)] }

\* The scale lines of a block: WIDTH, then HEIGHT, each present or not.
ScaleLineOf(axis, scale) == ScaleLine(axis, scale.base, scale.ratio)

HookScaleLines ==
    { <<>> }
    \cup { <<ScaleLineOf("WIDTH", w)>> : w \in HookScales }
    \cup { <<ScaleLineOf("HEIGHT", h)>> : h \in HookScales }
    \cup { <<ScaleLineOf("WIDTH", x[1]), ScaleLineOf("HEIGHT", x[2])>> : x \in HookScales \X HookScales }

\* A block in the order the hook files use.
HookSource(name, binds, save, scales) ==
    <<DescLine(name), HookLine("MAIN")>>
    \o [k \in 1 .. Len(binds) |-> BindLine(binds[k])]
    \o <<SaveLine(save)>>
    \o scales
    \o <<ComponentsLine("4"), CodeLine(Indented("", EntrypointBegin)), CodeLine(Indented("", EntrypointEnd))>>

\* Blocks with another HOOK or COMPONENTS content, with a WHEN line,
\* without SAVE, without name, without BIND, with a scale line the pattern
\* does not match, and a depth-to-space stage.
OddHookSources ==
    { <<DescLine(<<"x", "-Conv-", "4x3x3x3">>), HookLine("MAIN"), SaveLine("conv1"),
        ScaleLine("WIDTH", "MAIN", None)>>,
      <<DescLine(<<"x", "-Conv-", "4x3x3x3">>), HookLine("MAIN"), BindLine("MAIN"), SaveLine("conv1"),
        ScaleLine("WIDTH", "MAIN", None), MalformedScaleLine("HEIGHT")>>,
      <<DescLine(<<"x", "-Depth-to-Space">>), HookLine("MAIN"), BindLine("MAIN"), BindLine("conv1"),
        SaveLine("MAIN"), ScaleLine("WIDTH", "conv1", Some(2)), ScaleLine("HEIGHT", "conv1", Some(2))>>, <<DescLine(<<"x", "-Conv-", "4x3x3x3">>), HookLine("LUMA"), BindLine("MAIN"), SaveLine("conv1"),
        ScaleLine("WIDTH", "MAIN", None)>>,
      <<DescLine(<<"x", "-Conv-", "4x3x3x3">>), HookLine("MAIN"), BindLine("MAIN"), SaveLine("conv1"),
        ScaleLine("WIDTH", "MAIN", None), ComponentsLine("3")>>,
      <<DescLine(<<"x", "-Conv-", "4x3x3x3">>), HookLine("MAIN"), BindLine("MAIN"), SaveLine("conv1"),
        ScaleLine("WIDTH", "MAIN", None), WhenLine, ComponentsLine("4")>>,
      <<DescLine(<<"x", "-Conv-", "4x3x3x3">>), HookLine("MAIN"), BindLine("MAIN"),
        ScaleLine("WIDTH", "MAIN", None)>>,
      <<DescLine(<<>>), HookLine("MAIN"), BindLine("MAIN"), SaveLine("conv1"),
        ScaleLine("WIDTH", "MAIN", None)>> }

(***************************************************************************)
(* Hooks handed to WgslStageShader::new: a block with two inputs and a     *)
(* body of lines.                                                          *)
(***************************************************************************)
\* Lines of a body: macros over a texture of the scale of the source, with
\* and without fraction, and over an unknown texture; the entry point; the
\* statements; a comment, a line of white space, and lines no pattern
\* matches.
BodyLines ==
    { Indented("", GoMacro("#define go_0(x_off, y_off) (conv1_texOff(vec2(x_off, y_off)))",
                           "go_0", "conv1", None, None)),
      Indented("", GoMacro("#define go_1(x_off, y_off) (max(-(MAIN_texOff(vec2(x_off, y_off) * 0.5)), 0.0))",
                           "go_1", "MAIN", Some("0.5"), Some("-"))),
      Indented("", GoMacro("#define go_2(x_off, y_off) (conv9_texOff(vec2(x_off, y_off)))",
                           "go_2", "conv9", None, None)),
      Indented("", GMacroRelu("#define g_0 (max(-(conv1_tex(conv1_pos)), 0.0))", "g_0", "conv1", Some("-"))),
      Indented("", EntrypointBegin),
      Indented("", EntrypointEnd),
      Indented("    ", ResultAddProd("vec4 result = mat4(0.1, 0.2) * go_0(1.0, -1.0);",
                                     TRUE, "0.1, 0.2", "go_0", Some(<<1, -1>>))),
      Indented("    ", ResultAddProd("result += mat4(0.3, 0.4) * g_0;", FALSE, "0.3, 0.4", "g_0", None)),
      Indented("    ", ResultAddVec("result += vec4(0.5, 0.6);", "0.5, 0.6")),
      Indented("    ", ReturnAsIs),
      Indented("    ", ReturnOverlay("return result * 0.5 + MAIN_tex(MAIN_pos);", " * 0.5")),
      Indented("  ", Comment("// weights")),
      Indented("  ", EmptyLine),
      Indented("    ", OtherLine("float x = 1.0;")),
      Indented("", OtherLine("discard;")) }

\* The block of a stage: a convolution at the scale of the source or at
\* twice that scale, or a depth-to-space stage, with the body as its code.
StageNames == { <<"Anime4K-v4.0-Upscale", "-Conv-", "4x3x3x3">>, <<"Anime4K-v4.0-Upscale", "-Depth-to-Space">> }
StageScales == { None, Some(2) }

StageSource(name, ratio, body) ==
    <<DescLine(name), HookLine("MAIN"), BindLine("MAIN"), BindLine("conv1"), SaveLine("conv2"),
      ScaleLine("WIDTH", "MAIN", ratio), ScaleLine("HEIGHT", "MAIN", ratio), ComponentsLine("4")>>
    \o [k \in 1 .. Len(body) |-> CodeLine(body[k])]

\* The scale map when the block is reached: an earlier block saved conv1.
StageMap == MapInsert(new_scale_factor_map, "conv1", 1)

\* Bodies that define one accessor and accumulate over it.  The macros all
\* define go_0 but the last: an offset accessor over conv1 without
\* fraction, one over MAIN with a fraction, an accessor without offsets
\* over conv1, and an offset accessor of another name.
AccessMacros ==
    { Indented("", GoMacro("#define go_0(x_off, y_off) (conv1_texOff(vec2(x_off, y_off)))",
                           "go_0", "conv1", None, None)),
      Indented("", GoMacro("#define go_0(x_off, y_off) (MAIN_texOff(vec2(x_off, y_off) * 0.5))",
                           "go_0", "MAIN", Some("0.5"), None)),
      Indented("", GMacroRelu("#define go_0 (max((conv1_tex(conv1_pos)), 0.0))", "go_0", "conv1", Some(""))),
      Indented("", GoMacro("#define go_1(x_off, y_off) (conv1_texOff(vec2(x_off, y_off)))",
                           "go_1", "conv1", None, None)) }

\* Accumulations over go_0: with and without declaration, without offsets
\* and with each pair of offsets the pattern admits.
AccumulationLines ==
    { Indented("    ", ResultAddProd("vec4 result = mat4(0.1, 0.2) * go_0;", TRUE, "0.1, 0.2", "go_0", None)),
      Indented("    ", ResultAddProd("vec4 result = mat4(0.1, 0.2) * go_0(-1.0, -1.0);", TRUE, "0.1, 0.2", "go_0", Some(<<-1, -1>>))),
      Indented("    ", ResultAddProd("vec4 result = mat4(0.1, 0.2) * go_0(-1.0, 0.0);", TRUE, "0.1, 0.2", "go_0", Some(<<-1, 0>>))),
      Indented("    ", ResultAddProd("vec4 result = mat4(0.1, 0.2) * go_0(-1.0, 1.0);", TRUE, "0.1, 0.2", "go_0", Some(<<-1, 1>>))),
      Indented("    ", ResultAddProd("vec4 result = mat4(0.1, 0.2) * go_0(0.0, -1.0);", TRUE, "0.1, 0.2", "go_0", Some(<<0, -1>>))),
      Indented("    ", ResultAddProd("vec4 result = mat4(0.1, 0.2) * go_0(0.0, 0.0);", TRUE, "0.1, 0.2", "go_0", Some(<<0, 0>>))),
      Indented("    ", ResultAddProd("vec4 result = mat4(0.1, 0.2) * go_0(0.0, 1.0);", TRUE, "0.1, 0.2", "go_0", Some(<<0, 1>>))),
      Indented("    ", ResultAddProd("vec4 result = mat4(0.1, 0.2) * go_0(1.0, -1.0);", TRUE, "0.1, 0.2", "go_0", Some(<<1, -1>>))),
      Indented("    ", ResultAddProd("vec4 result = mat4(0.1, 0.2) * go_0(1.0, 0.0);", TRUE, "0.1, 0.2", "go_0", Some(<<1, 0>>))),
      Indented("    ", ResultAddProd("vec4 result = mat4(0.1, 0.2) * go_0(1.0, 1.0);", TRUE, "0.1, 0.2", "go_0", Some(<<1, 1>>))),
      Indented("    ", ResultAddProd("result += mat4(0.1, 0.2) * go_0;", FALSE, "0.1, 0.2", "go_0", None)),
      Indented("    ", ResultAddProd("result += mat4(0.1, 0.2) * go_0(-1.0, -1.0);", FALSE, "0.1, 0.2", "go_0", Some(<<-1, -1>>))),
      Indented("    ", ResultAddProd("result += mat4(0.1, 0.2) * go_0(-1.0, 0.0);", FALSE, "0.1, 0.2", "go_0", Some(<<-1, 0>>))),
      Indented("    ", ResultAddProd("result += mat4(0.1, 0.2) * go_0(-1.0, 1.0);", FALSE, "0.1, 0.2", "go_0", Some(<<-1, 1>>))),
      Indented("    ", ResultAddProd("result += mat4(0.1, 0.2) * go_0(0.0, -1.0);", FALSE, "0.1, 0.2", "go_0", Some(<<0, -1>>))),
      Indented("    ", ResultAddProd("result += mat4(0.1, 0.2) * go_0(0.0, 0.0);", FALSE, "0.1, 0.2", "go_0", Some(<<0, 0>>))),
      Indented("    ", ResultAddProd("result += mat4(0.1, 0.2) * go_0(0.0, 1.0);", FALSE, "0.1, 0.2", "go_0", Some(<<0, 1>>))),
      Indented("    ", ResultAddProd("result += mat4(0.1, 0.2) * go_0(1.0, -1.0);", FALSE, "0.1, 0.2", "go_0", Some(<<1, -1>>))),
      Indented("    ", ResultAddProd("result += mat4(0.1, 0.2) * go_0(1.0, 0.0);", FALSE, "0.1, 0.2", "go_0", Some(<<1, 0>>))),
      Indented("    ", ResultAddProd("result += mat4(0.1, 0.2) * go_0(1.0, 1.0);", FALSE, "0.1, 0.2", "go_0", Some(<<1, 1>>))) }

\* The body: the macro, the entry line, the accumulations, the return and
\* the closing line.
AccessBody(macro, accumulations) ==
    <<macro, Indented("", EntrypointBegin)>> \o accumulations
    \o <<Indented("    ", ReturnAsIs), Indented("", EntrypointEnd)>>

\* Blocks that differ in what they bind and in their scale: the inputs
\* MAIN, conv1 or both, the scale of MAIN, twice that, or that of conv1,
\* with conv1 saved by an earlier block at the scale of the source or at
\* twice that scale.
LayoutBinds == { <<"MAIN">>, <<"conv1">>, <<"MAIN", "conv1">> }
LayoutScales ==
    { [matched |-> TRUE, base |-> "MAIN", ratio |-> None],
      [matched |-> TRUE, base |-> "MAIN", ratio |-> Some(2)],
      [matched |-> TRUE, base |-> "conv1", ratio |-> None] }
LayoutMaps == { MapInsert(new_scale_factor_map, "conv1", 1), MapInsert(new_scale_factor_map, "conv1", 2) }
LayoutBodies ==
    { <<>>,
      <<Indented("", EntrypointBegin), Indented("    ", ReturnOverlay("return result + MAIN_tex(MAIN_pos);", "")),
        Indented("", EntrypointEnd)>> }
LayoutSource(name, binds, save, scale, body) ==
    <<DescLine(name), HookLine("MAIN")>>
    \o [k \in 1 .. Len(binds) |-> BindLine(binds[k])]
    \o <<SaveLine(save), ScaleLineOf("WIDTH", scale), ScaleLineOf("HEIGHT", scale), ComponentsLine("4")>>
    \o [k \in 1 .. Len(body) |-> CodeLine(body[k])]

(***************************************************************************)
(* State.                                                                  *)
(***************************************************************************)
VARIABLES
    raw,            \* the PipelineSpec at hand
    validation,     \* what validate returned for it; Pending before the call
    compile_pc,     \* "idle", "start", "passes", then "done", "failed" or "panicked"
    shader_passes,  \* the executable passes collected so far
    loader_calls,   \* the file names the loader was called with, in order
    compiled        \* what compile returned; Pending before the return

pipelineVars == <<raw, validation, compile_pc, shader_passes, loader_calls, compiled>>

VARIABLES
    scale_text,       \* the text handed to from_str
    scale_parsed,     \* what from_str returned for it; Pending before the call
    scale_formatted,  \* the text Display wrote for the parsed value
    scale_reparsed,   \* what from_str returned for the written text
    scale_pc          \* "idle", "text", "parsed", "formatted", "reparsed"

scaleVars == <<scale_text, scale_parsed, scale_formatted, scale_reparsed, scale_pc>>

VARIABLES
    scale_factor_map,  \* the running scale map of the loop over the blocks
    pass_index,        \* the number of blocks handed to MpvHook::new so far
    pass_source,       \* the block of the last call
    map_at_call,       \* the scale map as it was handed to the last call
    hook,              \* what the last call returned; Pending before the first
    saved_outputs,     \* the outputs of the hooks returned so far, in order
    hooks_pc           \* "idle", "loop", then "done" or "failed"

hookVars == <<scale_factor_map, pass_index, pass_source, map_at_call, hook, saved_outputs, hooks_pc>>

VARIABLES
    stage_source,  \* the hook MpvHook::new returned for the block at hand
    stage_map,     \* the scale map after that call
    stage,         \* what WgslStageShader::new returned; Pending before the call
    stage_pass,    \* the Pass pushed for the stage; Pending before that
    stage_pc       \* "idle", "hook", then "done" or "failed"

stageVars == <<stage_source, stage_map, stage, stage_pass, stage_pc>>

VARIABLES
    glsl_source,  \* the text of the hook file, character by character
    hooks,        \* what parse_mpv_hooks returned for it; Pending before the call
    split_pc      \* "idle", "source", "split"

splitVars == <<glsl_source, hooks, split_pc>>

VARIABLES
    physical_texture_map,  \* what each texture of the bound pipeline holds: "SOURCE", "" or the id of the pass that wrote it last
    pass_reads,            \* per dispatched pass, what each of its input bindings found in its texture
    exec_pc                \* "idle", "bound"

execVars == <<physical_texture_map, pass_reads, exec_pc>>

vars == <<allocVars, pipelineVars, scaleVars, hookVars, stageVars, splitVars, execVars>>

\* No manifest at hand.
NoSpec == PipelineSpec("", "", <<>>)
Pending == [kind |-> "Pending"]

\* The allocator before its loop, and when it is not running.
AllocStart ==
    /\ texture_lifetimes = <<>>
    /\ physical_textures = AllocInit.physical_textures
    /\ texture_assignments = AllocInit.texture_assignments
    /\ physical_texture_slots = AllocInit.physical_texture_slots

CompilerIdle ==
    /\ compile_pc = "idle"
    /\ shader_passes = <<>>
    /\ loader_calls = <<>>
    /\ compiled = Pending

PipelineIdle == raw = NoSpec /\ validation = Pending /\ CompilerIdle

HooksIdle ==
    /\ scale_factor_map = new_scale_factor_map
    /\ pass_index = 0
    /\ pass_source = <<>>
    /\ map_at_call = new_scale_factor_map
    /\ hook = Pending
    /\ saved_outputs = <<>>
    /\ hooks_pc = "idle"

StageIdle ==
    /\ stage_source = Pending
    /\ stage_map = new_scale_factor_map
    /\ stage = Pending
    /\ stage_pass = Pending
    /\ stage_pc = "idle"

SplitIdle ==
    /\ glsl_source = <<>>
    /\ hooks = Pending
    /\ split_pc = "idle"

ExecIdle ==
    /\ physical_texture_map = EmptyMap
    /\ pass_reads = <<>>
    /\ exec_pc = "idle"

ScaleIdle ==
    /\ scale_text = <<>>
    /\ scale_parsed = Pending
    /\ scale_formatted = <<>>
    /\ scale_reparsed = Pending
    /\ scale_pc = "idle"

(***************************************************************************)
(* The allocator as a state machine: one step per loop iteration.  The     *)
(* loop reads the slice front to back and never looks ahead, so the slice  *)
(* is revealed one element per iteration: texture_lifetimes is the part    *)
(* already iterated, and the return may come after any number of elements. *)
(***************************************************************************)
Init ==
    /\ AllocStart
    /\ alloc_pc = "loop"
    /\ PipelineIdle
    /\ ScaleIdle
    /\ HooksIdle
    /\ StageIdle
    /\ SplitIdle
    /\ ExecIdle

AssignNext ==
    /\ alloc_pc = "loop"
    /\ Len(texture_lifetimes) < MaxLifetimes
    /\ \E lifetime \in TextureLifetime(Len(texture_lifetimes) + 1) :
          LET st == AssignOne([physical_textures |-> physical_textures,
                               texture_assignments |-> texture_assignments,
                               physical_texture_slots |-> physical_texture_slots],
                              lifetime)
          IN  /\ texture_lifetimes' = Append(texture_lifetimes, lifetime)
              /\ physical_textures' = st.physical_textures
              /\ texture_assignments' = st.texture_assignments
              /\ physical_texture_slots' = st.physical_texture_slots
    /\ UNCHANGED <<alloc_pc, pipelineVars>>
    /\ UNCHANGED scaleVars
    /\ UNCHANGED hookVars
    /\ UNCHANGED stageVars
    /\ UNCHANGED splitVars
    /\ UNCHANGED execVars

AssignReturn ==
    /\ alloc_pc = "loop"
    /\ alloc_pc' = "done"
    /\ UNCHANGED <<texture_lifetimes, physical_textures, texture_assignments,
                   physical_texture_slots, pipelineVars>>
    /\ UNCHANGED scaleVars
    /\ UNCHANGED hookVars
    /\ UNCHANGED stageVars
    /\ UNCHANGED splitVars
    /\ UNCHANGED execVars

Next == AssignNext \/ AssignReturn

Spec == Init /\ [][Next]_vars

(***************************************************************************)
(* validate as a state machine: a manifest is at hand, one call settles it.*)
(***************************************************************************)
InitValidate ==
    /\ AllocStart
    /\ alloc_pc = "idle"
    /\ \E n \in 0 .. MaxValidatedPasses :
          \E ios \in [1 .. n -> ValidatedPasses] :
              \E h \in Headers :
                  /\ (h[1] = "" \/ h[2] = "") => n <= 1
                  /\ raw = PipelineSpec(h[1], h[2], ValidatedPassList(n, ios))
    /\ validation = Pending
    /\ CompilerIdle
    /\ ScaleIdle
    /\ HooksIdle
    /\ StageIdle
    /\ SplitIdle
    /\ ExecIdle

Validate ==
    /\ validation = Pending
    /\ validation' = validate(raw)
    /\ UNCHANGED <<raw, allocVars, compile_pc, shader_passes, loader_calls, compiled>>
    /\ UNCHANGED scaleVars
    /\ UNCHANGED hookVars
    /\ UNCHANGED stageVars
    /\ UNCHANGED splitVars
    /\ UNCHANGED execVars

NextValidate == Validate

SpecValidate == InitValidate /\ [][NextValidate]_vars

(***************************************************************************)
(* compile as a state machine: the analysis, then one step per pass in     *)
(* which the loader is called, then the return.                            *)
(***************************************************************************)
\* What the injected loader hands back: the text of the file, or an
\* std::io::Error of its own making.  The loaders of this repository make
\* one that quotes the file name they were called with, or hand on the
\* error of std::fs::read_to_string, which quotes nothing.
ShaderText(file) == [text_of |-> file]
LoaderErrors(file) ==
    { [kind |-> "NotFound", message |-> <<"File not found: ", file>>],
      [kind |-> "NotFound", message |-> <<"No such file or directory (os error 2)">>] }

\* The argument of the loader call for a pass.
LoaderArgument_Id(pass) == pass.id

LoaderArgument(pass) == pass.file

\* What the ? operator and collect make of the loader's error: compile
\* returns the error itself, and none of the passes collected so far.
Propagate(shader_passes_so_far, error) == [kind |-> "Err", error |-> error]

InitCompile ==
    /\ \E n \in 0 .. MaxCompiledPasses :
          \E io \in [1 .. n -> CompiledInputs \X CompiledOutputs] : raw = CompiledSpec(n, io)
    /\ validation = Pending
    /\ compile_pc = "start"
    /\ shader_passes = <<>>
    /\ loader_calls = <<>>
    /\ compiled = Pending
    /\ AllocStart
    /\ alloc_pc = "idle"
    /\ ScaleIdle
    /\ HooksIdle
    /\ StageIdle
    /\ SplitIdle
    /\ ExecIdle

\* collect_texture_lifetimes and assign_physical_textures.
CompileAnalyze ==
    /\ compile_pc = "start"
    /\ LET lifetimes == collect_texture_lifetimes(raw)
           st == assign_physical_textures(lifetimes)
       IN  /\ texture_lifetimes' = lifetimes
           /\ physical_textures' = st.physical_textures
           /\ texture_assignments' = st.texture_assignments
           /\ physical_texture_slots' = st.physical_texture_slots
    /\ compile_pc' = "passes"
    /\ UNCHANGED <<raw, validation, alloc_pc, shader_passes, loader_calls, compiled>>
    /\ UNCHANGED scaleVars
    /\ UNCHANGED hookVars
    /\ UNCHANGED stageVars
    /\ UNCHANGED splitVars
    /\ UNCHANGED execVars

\* The pass the closure of create_executable_passes is applied to next.
NextPass == raw.passes[Len(shader_passes) + 1]

\* The closure panics before it reaches the loader.
CreatePassPanics ==
    /\ compile_pc = "passes"
    /\ Len(shader_passes) < Len(raw.passes)
    /\ PassPanics(texture_assignments, NextPass)
    /\ compile_pc' = "panicked"
    /\ compiled' = [kind |-> "Panic"]
    /\ UNCHANGED <<raw, validation, allocVars, shader_passes, loader_calls>>
    /\ UNCHANGED scaleVars
    /\ UNCHANGED hookVars
    /\ UNCHANGED stageVars
    /\ UNCHANGED splitVars
    /\ UNCHANGED execVars

\* The loader returns the shader text: the pass is collected.
CreatePass ==
    /\ compile_pc = "passes"
    /\ Len(shader_passes) < Len(raw.passes)
    /\ ~PassPanics(texture_assignments, NextPass)
    /\ loader_calls' = Append(loader_calls, LoaderArgument(NextPass))
    /\ shader_passes' = Append(shader_passes,
                               ExecutablePass(raw, texture_assignments, NextPass,
                                              ShaderText(LoaderArgument(NextPass))))
    /\ UNCHANGED <<raw, validation, allocVars, compile_pc, compiled>>
    /\ UNCHANGED scaleVars
    /\ UNCHANGED hookVars
    /\ UNCHANGED stageVars
    /\ UNCHANGED splitVars
    /\ UNCHANGED execVars

\* The loader fails: collect stops and compile returns the loader's error.
LoaderFails ==
    /\ compile_pc = "passes"
    /\ Len(shader_passes) < Len(raw.passes)
    /\ ~PassPanics(texture_assignments, NextPass)
    /\ loader_calls' = Append(loader_calls, LoaderArgument(NextPass))
    /\ compile_pc' = "failed"
    /\ \E error \in LoaderErrors(LoaderArgument(NextPass)) :
          compiled' = Propagate(shader_passes, error)
    /\ UNCHANGED <<raw, validation, allocVars, shader_passes>>
    /\ UNCHANGED scaleVars
    /\ UNCHANGED hookVars
    /\ UNCHANGED stageVars
    /\ UNCHANGED splitVars
    /\ UNCHANGED execVars

\* All passes are collected: required_samplers and the returned pipeline.
CompileReturn ==
    /\ compile_pc = "passes"
    /\ Len(shader_passes) = Len(raw.passes)
    /\ compile_pc' = "done"
    /\ compiled' = [kind |-> "Ok",
                    pipeline |-> [id |-> raw.id,
                                  name |-> raw.name,
                                  physical_textures |-> physical_textures,
                                  passes |-> shader_passes,
                                  required_samplers |-> required_samplers(raw)]]
    /\ UNCHANGED <<raw, validation, allocVars, shader_passes, loader_calls>>
    /\ UNCHANGED scaleVars
    /\ UNCHANGED hookVars
    /\ UNCHANGED stageVars
    /\ UNCHANGED splitVars
    /\ UNCHANGED execVars

NextCompile == CompileAnalyze \/ CreatePassPanics \/ CreatePass \/ LoaderFails \/ CompileReturn

SpecCompile == InitCompile /\ [][NextCompile]_vars

(***************************************************************************)
(* The compiled pipeline bound and run: BoundPipeline::new makes one       *)
(* texture per physical texture, the caller's input texture for the one    *)
(* marked is_source, and BoundPipeline::pass dispatches the passes in      *)
(* order.  A texture is modelled by who wrote it last.                     *)
(***************************************************************************)
\* Output lists of a pass of the manifests that are run.
ExecutedOutputs ==
    { <<Out("A", 2)>>,
      <<Out("B", 2)>>,
      <<Out("RESULT", 2)>>,
      <<Out("B", 2), Out("A", 3)>> }

\* The texture made for a physical texture: the input texture, or a new one
\* that nothing has written.
BoundTexture(pt) == IF pt.is_source THEN "SOURCE" ELSE ""

RECURSIVE BindTextures(_, _, _)
BindTextures(map, textures, k) ==
    IF k > Len(textures) THEN map
    ELSE BindTextures(MapInsert(map, textures[k].id, BoundTexture(textures[k])), textures, k + 1)

\* What the input bindings of a pass read when it is dispatched.
ReadsOf(map, pass) ==
    [k \in 1 .. Len(pass.input_textures) |->
        [logical_id |-> pass.input_textures[k].logical_id,
         physical_id |-> pass.input_textures[k].physical_id,
         found |-> map[pass.input_textures[k].physical_id]]]

\* The textures after a pass has written its outputs.
RECURSIVE WriteOutputs(_, _, _)
WriteOutputs(map, pass, k) ==
    IF k > Len(pass.output_textures) THEN map
    ELSE WriteOutputs(MapInsert(map, pass.output_textures[k].physical_id, pass.id), pass, k + 1)

InitExecute ==
    /\ \E n \in 0 .. MaxExecutedPasses :
          \E io \in [1 .. n -> CompiledInputs \X ExecutedOutputs] : raw = CompiledSpec(n, io)
    /\ validation = Pending
    /\ compile_pc = "start"
    /\ shader_passes = <<>>
    /\ loader_calls = <<>>
    /\ compiled = Pending
    /\ AllocStart
    /\ alloc_pc = "idle"
    /\ ScaleIdle
    /\ HooksIdle
    /\ StageIdle
    /\ SplitIdle
    /\ ExecIdle

\* BoundPipeline::new for the pipeline compile returned.
Bind ==
    /\ compile_pc = "done"
    /\ exec_pc = "idle"
    /\ physical_texture_map' = BindTextures(EmptyMap, compiled.pipeline.physical_textures, 1)
    /\ exec_pc' = "bound"
    /\ UNCHANGED pass_reads
    /\ UNCHANGED allocVars
    /\ UNCHANGED pipelineVars
    /\ UNCHANGED scaleVars
    /\ UNCHANGED hookVars
    /\ UNCHANGED stageVars
    /\ UNCHANGED splitVars

\* One iteration of the loop of BoundPipeline::pass.
Dispatch ==
    /\ exec_pc = "bound"
    /\ Len(pass_reads) < Len(compiled.pipeline.passes)
    /\ LET pass == compiled.pipeline.passes[Len(pass_reads) + 1]
       IN  /\ pass_reads' = Append(pass_reads, ReadsOf(physical_texture_map, pass))
           /\ physical_texture_map' = WriteOutputs(physical_texture_map, pass, 1)
    /\ UNCHANGED exec_pc
    /\ UNCHANGED allocVars
    /\ UNCHANGED pipelineVars
    /\ UNCHANGED scaleVars
    /\ UNCHANGED hookVars
    /\ UNCHANGED stageVars
    /\ UNCHANGED splitVars

NextExecute == NextCompile \/ Bind \/ Dispatch

SpecExecute == InitExecute /\ [][NextExecute]_vars

\* compile of the manifests that declare samplers.
InitSamplers ==
    /\ \E n \in 0 .. MaxSampledPasses :
          \E os \in [1 .. n -> SampledOutputs \X SampledSamplers] : raw = SampledSpec(n, os)
    /\ validation = Pending
    /\ compile_pc = "start"
    /\ shader_passes = <<>>
    /\ loader_calls = <<>>
    /\ compiled = Pending
    /\ AllocStart
    /\ alloc_pc = "idle"
    /\ ScaleIdle
    /\ HooksIdle
    /\ StageIdle
    /\ SplitIdle
    /\ ExecIdle

SpecSamplers == InitSamplers /\ [][NextCompile]_vars

(***************************************************************************)
(* A text parsed, the value written, and the written text parsed again.    *)
(***************************************************************************)
InitScale ==
    /\ scale_text \in Texts
    /\ scale_parsed = Pending
    /\ scale_formatted = <<>>
    /\ scale_reparsed = Pending
    /\ scale_pc = "text"
    /\ AllocStart
    /\ alloc_pc = "idle"
    /\ PipelineIdle
    /\ HooksIdle
    /\ StageIdle
    /\ SplitIdle
    /\ ExecIdle

ParseText ==
    /\ scale_pc = "text"
    /\ scale_parsed' = from_str(scale_text)
    /\ scale_pc' = "parsed"
    /\ UNCHANGED <<scale_text, scale_formatted, scale_reparsed, allocVars, pipelineVars, hookVars, stageVars, splitVars>>
    /\ UNCHANGED execVars

FormatParsed ==
    /\ scale_pc = "parsed"
    /\ scale_parsed.kind = "Ok"
    /\ scale_formatted' = Display(scale_parsed.value)
    /\ scale_pc' = "formatted"
    /\ UNCHANGED <<scale_text, scale_parsed, scale_reparsed, allocVars, pipelineVars, hookVars, stageVars, splitVars>>
    /\ UNCHANGED execVars

ParseFormatted ==
    /\ scale_pc = "formatted"
    /\ scale_reparsed' = from_str(scale_formatted)
    /\ scale_pc' = "reparsed"
    /\ UNCHANGED <<scale_text, scale_parsed, scale_formatted, allocVars, pipelineVars, hookVars, stageVars, splitVars>>
    /\ UNCHANGED execVars

NextScale == ParseText \/ FormatParsed \/ ParseFormatted

SpecScale == InitScale /\ [][NextScale]_vars

(***************************************************************************)
(* The loop over the blocks of a hook source with one running scale map.   *)
(* The loop reads the blocks front to back, so a block is revealed when it *)
(* is handed to MpvHook::new; the first error ends the loop.               *)
(***************************************************************************)
InitHooks ==
    /\ scale_factor_map = new_scale_factor_map
    /\ pass_index = 0
    /\ pass_source = <<>>
    /\ map_at_call = new_scale_factor_map
    /\ hook = Pending
    /\ saved_outputs = <<>>
    /\ hooks_pc = "loop"
    /\ AllocStart
    /\ alloc_pc = "idle"
    /\ PipelineIdle
    /\ ScaleIdle
    /\ StageIdle
    /\ SplitIdle
    /\ ExecIdle

\* One iteration: the call of MpvHook::new with a block and the running
\* map, then the call of WgslStageShader::new with the hook; an error of
\* either ends the loop.
ParseHook(source) ==
    /\ hooks_pc = "loop"
    /\ pass_index < MaxHookBlocks
    /\ LET made == MpvHook_new(source, scale_factor_map)
       IN  /\ hook' = [x \in DOMAIN made \ { "scale_factor_map" } |-> made[x]]
           /\ scale_factor_map' = made.scale_factor_map
           /\ saved_outputs' = IF made.kind = "Ok"
                               THEN Push(saved_outputs, made.hook.output)
                               ELSE saved_outputs
           /\ hooks_pc' = IF /\ made.kind = "Ok"
                             /\ WgslStageShader_new(made.hook, made.scale_factor_map).kind = "Ok"
                          THEN "loop" ELSE "failed"
    /\ pass_source' = source
    /\ map_at_call' = scale_factor_map
    /\ pass_index' = pass_index + 1
    /\ UNCHANGED <<allocVars, pipelineVars, scaleVars, stageVars, splitVars>>
    /\ UNCHANGED execVars

ParseNextHook ==
    \/ \E name \in HookNames, binds \in HookBinds, save \in HookSaves, scales \in HookScaleLines :
          ParseHook(HookSource(name, binds, save, scales))
    \/ \E source \in OddHookSources : ParseHook(source)

\* The source has no more blocks.
HooksReturn ==
    /\ hooks_pc = "loop"
    /\ hooks_pc' = "done"
    /\ UNCHANGED <<scale_factor_map, pass_index, pass_source, map_at_call, hook, saved_outputs>>
    /\ UNCHANGED <<allocVars, pipelineVars, scaleVars, stageVars, splitVars>>
    /\ UNCHANGED execVars

NextHooks == ParseNextHook \/ HooksReturn

SpecHooks == InitHooks /\ [][NextHooks]_vars

(***************************************************************************)
(* One iteration of the loop of cnn_glsl_to_executable_pipeline over the   *)
(* blocks: MpvHook::new has returned the hook, WgslStageShader::new is     *)
(* called with it and the scale map.                                       *)
(***************************************************************************)
InitStage ==
    /\ AllocStart /\ alloc_pc = "idle"
    /\ PipelineIdle
    /\ ScaleIdle
    /\ HooksIdle
    /\ SplitIdle
    /\ \E name \in StageNames : \E ratio \in StageScales :
       \E n \in 0 .. MaxBodyLines : \E body \in [1 .. n -> BodyLines] :
          LET parsed == MpvHook_new(StageSource(name, ratio, body), StageMap)
          IN  /\ stage_source = parsed.hook
              /\ stage_map = parsed.scale_factor_map
    /\ stage = Pending
    /\ stage_pass = Pending
    /\ stage_pc = "hook"
    /\ ExecIdle

\* The rest of the iteration is part of the step: the Pass pushed for the
\* stage, the first of the file.  The helper file of a depth-to-space
\* stage is read without error.
NewStage ==
    /\ stage_pc = "hook"
    /\ stage' = WgslStageShader_new(stage_source, stage_map)
    /\ stage_pass' = IF stage'.kind = "Ok" THEN StagePass(stage'.shader, 0) ELSE Pending
    /\ stage_pc' = IF stage'.kind = "Ok" THEN "done" ELSE "failed"
    /\ UNCHANGED <<stage_source, stage_map>>
    /\ UNCHANGED <<allocVars, pipelineVars, scaleVars, hookVars, splitVars>>
    /\ UNCHANGED execVars

NextStage == NewStage

SpecStage == InitStage /\ [][NextStage]_vars

\* The same call for the bodies that accumulate over an accessor.
InitAccess ==
    /\ AllocStart /\ alloc_pc = "idle"
    /\ PipelineIdle
    /\ ScaleIdle
    /\ HooksIdle
    /\ SplitIdle
    /\ \E ratio \in StageScales : \E macro \in AccessMacros :
       \E n \in 1 .. MaxAccumulations : \E accumulations \in [1 .. n -> AccumulationLines] :
          LET parsed == MpvHook_new(StageSource(<<"Anime4K-v4.0-Upscale", "-Conv-", "4x3x3x3">>, ratio,
                                                AccessBody(macro, accumulations)),
                                    StageMap)
          IN  /\ stage_source = parsed.hook
              /\ stage_map = parsed.scale_factor_map
    /\ stage = Pending
    /\ stage_pass = Pending
    /\ stage_pc = "hook"
    /\ ExecIdle

SpecAccess == InitAccess /\ [][NextStage]_vars

\* The same call for blocks that differ in inputs and scale.
InitLayout ==
    /\ AllocStart /\ alloc_pc = "idle"
    /\ PipelineIdle
    /\ ScaleIdle
    /\ HooksIdle
    /\ SplitIdle
    /\ \E name \in StageNames, binds \in LayoutBinds, save \in { "conv2", "MAIN" },
          scale \in LayoutScales, map \in LayoutMaps, body \in LayoutBodies :
          LET parsed == MpvHook_new(LayoutSource(name, binds, save, scale, body), map)
          IN  /\ stage_source = parsed.hook
              /\ stage_map = parsed.scale_factor_map
    /\ stage = Pending
    /\ stage_pass = Pending
    /\ stage_pc = "hook"
    /\ ExecIdle

SpecLayout == InitLayout /\ [][NextStage]_vars

(***************************************************************************)
(* The split of a hook file into blocks.                                   *)
(***************************************************************************)
InitSplit ==
    /\ \E n \in 0 .. MaxSourceLen : glsl_source \in [1 .. n -> SourceAlphabet]
    /\ hooks = Pending
    /\ split_pc = "source"
    /\ AllocStart /\ alloc_pc = "idle"
    /\ PipelineIdle
    /\ ScaleIdle
    /\ HooksIdle
    /\ StageIdle
    /\ ExecIdle

ParseMpvHooks ==
    /\ split_pc = "source"
    /\ hooks' = parse_mpv_hooks(glsl_source)
    /\ split_pc' = "split"
    /\ UNCHANGED glsl_source
    /\ UNCHANGED <<allocVars, pipelineVars, scaleVars, hookVars, stageVars>>
    /\ UNCHANGED execVars

NextSplit == ParseMpvHooks

SpecSplit == InitSplit /\ [][NextSplit]_vars

(***************************************************************************)
(* Properties of the allocator.                                            *)
(***************************************************************************)
\* Positions of the lifetimes iterated so far.
Processed == 1 .. Len(texture_lifetimes)

\* The physical id the assignment map holds for the k-th lifetime.
AssignedId(k) == texture_assignments[texture_lifetimes[k].logical_id]

\* Inclusive intervals [created_at, last_used_at] with no pass in common.
Disjoint(a, b) == a.last_used_at < b.created_at \/ b.last_used_at < a.created_at

SameFormat(a, b) == a.components = b.components /\ a.scale_factor = b.scale_factor

\* C1: two distinct logical textures that receive the same physical id have
\* disjoint inclusive intervals [created_at, last_used_at], whatever the
\* order of the list; so overlapping or touching intervals get different ids.
C1_SharedIdDisjointLifetimes ==
    \A i, j \in Processed :
        (i # j /\ AssignedId(i) = AssignedId(j))
            => Disjoint(texture_lifetimes[i], texture_lifetimes[j])

\* A returned allocation in which two textures share an id, the list is not
\* in creation order, and a texture created in the pass of another one's
\* last use (same format) was given another id.
C1_Witness ==
    /\ alloc_pc = "done"
    /\ \E i, j \in Processed : i # j /\ AssignedId(i) = AssignedId(j)
    /\ \E i, j \in Processed :
          i < j /\ texture_lifetimes[j].created_at < texture_lifetimes[i].created_at
    /\ \E i, j \in Processed :
          /\ i # j
          /\ SameFormat(texture_lifetimes[i], texture_lifetimes[j])
          /\ texture_lifetimes[j].created_at = texture_lifetimes[i].last_used_at
          /\ AssignedId(i) # AssignedId(j)

\* The entries of the physical texture list with a given id.
EntriesWithId(id) == { e \in 1 .. Len(physical_textures) : physical_textures[e].id = id }

\* C2: two logical textures that receive the same physical id have the same
\* component count and the same (numerator, denominator) pairs, and the
\* physical texture entry with that id carries them; 2/1 and 4/2 never share.
C2_SharedIdSameFormat ==
    /\ \A i, j \in Processed :
          AssignedId(i) = AssignedId(j)
              => SameFormat(texture_lifetimes[i], texture_lifetimes[j])
    /\ \A i \in Processed :
          /\ EntriesWithId(AssignedId(i)) # {}
          /\ \A e \in EntriesWithId(AssignedId(i)) :
                SameFormat(physical_textures[e], texture_lifetimes[i])

\* A returned allocation with two textures of equal component count whose
\* lifetimes are disjoint and whose scales are 2/1 and 4/2, and two textures
\* that do share an id.
C2_Witness ==
    /\ alloc_pc = "done"
    /\ \E i, j \in Processed :
          /\ texture_lifetimes[i].last_used_at < texture_lifetimes[j].created_at
          /\ texture_lifetimes[i].components = texture_lifetimes[j].components
          /\ texture_lifetimes[i].scale_factor[1] = ScaleFactor(2, 1)
          /\ texture_lifetimes[j].scale_factor[1] = ScaleFactor(4, 2)
          /\ AssignedId(i) # AssignedId(j)
    /\ \E i, j \in Processed : i # j /\ AssignedId(i) = AssignedId(j)

\* C3: the returned list has no two entries with the same id and exactly
\* one source-flagged entry (id u32::MAX, 4 components, scale 1/1 x 1/1)
\* whose id no allocated texture gets; every id of the assignment map is in
\* the list; the empty lifetime list gives exactly the SOURCE entry.
C3_UniqueIdsOneSource ==
    /\ \A e, f \in 1 .. Len(physical_textures) :
          physical_textures[e].id = physical_textures[f].id => e = f
    /\ Cardinality({ e \in 1 .. Len(physical_textures) : physical_textures[e].is_source }) = 1
    /\ \A e \in 1 .. Len(physical_textures) :
          physical_textures[e].is_source => physical_textures[e] = SourceTexture
    /\ \A e \in 1 .. Len(physical_textures) :
          ~physical_textures[e].is_source => physical_textures[e].id # SOURCE_ID
    /\ \A i \in Processed : AssignedId(i) # SOURCE_ID
    /\ \A name \in DOMAIN texture_assignments :
          EntriesWithId(texture_assignments[name]) # {}
    /\ texture_lifetimes = <<>> =>
          (physical_textures = <<SourceTexture>> /\ DOMAIN texture_assignments = {"SOURCE"})

\* A returned allocation in which a slot was reused and another one was
\* newly allocated after it.
C3_Witness ==
    /\ alloc_pc = "done"
    /\ Len(texture_lifetimes) = 3
    /\ AssignedId(1) = AssignedId(2)
    /\ AssignedId(3) # AssignedId(1)
    /\ Len(physical_textures) = 3

\* The occupant of a slot before the k-th lifetime is processed: the latest
\* earlier lifetime that was given the slot's id.
Occupant(p, k) ==
    LET owners == { j \in 1 .. (k - 1) : AssignedId(j) = p }
    IN  texture_lifetimes[CHOOSE j \in owners : \A h \in owners : h <= j]

\* Ids handed out before the k-th lifetime is processed.
IdsBefore(k) == { AssignedId(j) : j \in 1 .. (k - 1) }

\* The id first-fit gives the k-th lifetime: the lowest-numbered slot whose
\* occupant ended strictly before its creation and has its format, else a
\* new slot numbered by the count of slots so far.
GreedyId(k) ==
    LET fits == { p \in IdsBefore(k) :
                    /\ Occupant(p, k).last_used_at < texture_lifetimes[k].created_at
                    /\ SameFormat(Occupant(p, k), texture_lifetimes[k]) }
    IN  IF fits # {} THEN CHOOSE p \in fits : \A q \in fits : p <= q
        ELSE Cardinality(IdsBefore(k))

\* Compatible lifetimes with pairwise disjoint, increasing ranges.
IsChain ==
    \A i, j \in Processed :
        i < j => /\ texture_lifetimes[i].last_used_at < texture_lifetimes[j].created_at
                 /\ SameFormat(texture_lifetimes[i], texture_lifetimes[j])

\* C4: greedy first-fit in list order: every lifetime gets the lowest slot
\* whose current occupant has last_used_at < created_at and the identical
\* format, else a new slot numbered by the slots so far, so the allocated
\* ids are exactly 0..k-1; a chain of compatible, increasing, disjoint
\* lifetimes is all on id 0, with 2 physical textures in total.
C4_GreedyFirstFit ==
    /\ \A k \in Processed : AssignedId(k) = GreedyId(k)
    /\ { physical_textures[e].id : e \in 2 .. Len(physical_textures) }
          = 0 .. (Len(physical_textures) - 2)
    /\ Len(physical_texture_slots) = Len(physical_textures) - 1
    /\ (IsChain /\ texture_lifetimes # <<>>) =>
          /\ \A k \in Processed : AssignedId(k) = 0
          /\ Len(physical_textures) = 2

\* A returned allocation of a chain of three, and one in which the third
\* lifetime fits two slots and takes the lower.
C4_WitnessChain ==
    alloc_pc = "done" /\ Len(texture_lifetimes) = 3 /\ IsChain

C4_Witness ==
    /\ alloc_pc = "done"
    /\ Len(texture_lifetimes) = 3
    /\ AssignedId(1) = 0 /\ AssignedId(2) = 1 /\ AssignedId(3) = 0
    /\ CanReuse(texture_lifetimes[1], texture_lifetimes[3])
    /\ CanReuse(texture_lifetimes[2], texture_lifetimes[3])

(***************************************************************************)
(* Properties of validate.  The rules are stated on the manifest itself,   *)
(* by quantification over its passes, and compared with what the scan of   *)
(* validate returned.                                                      *)
(***************************************************************************)
Validated == validation # Pending

PassCount == Len(raw.passes)

\* Ids of the outputs and inputs of the pass at position i.
OutputIds(i) == { raw.passes[i].outputs[o].id : o \in 1 .. Len(raw.passes[i].outputs) }
InputIds(i) == { raw.passes[i].inputs[k].id : k \in 1 .. Len(raw.passes[i].inputs) }

\* Number of inputs, outputs and samplers of a pass bound to slot b.
SlotUses(pass, b) ==
    Cardinality({ k \in 1 .. Len(pass.inputs) : pass.inputs[k].binding = b })
    + Cardinality({ k \in 1 .. Len(pass.outputs) : pass.outputs[k].binding = b })
    + Cardinality({ k \in 1 .. Len(pass.samplers) : pass.samplers[k].binding = b })

SlotsOf(pass) ==
    { pass.inputs[k].binding : k \in 1 .. Len(pass.inputs) }
    \cup { pass.outputs[k].binding : k \in 1 .. Len(pass.outputs) }
    \cup { pass.samplers[k].binding : k \in 1 .. Len(pass.samplers) }

\* Positions <<pass, output>> of all outputs, and their scan order.
OutputPositions ==
    UNION { { <<i, o>> : o \in 1 .. Len(raw.passes[i].outputs) } : i \in 1 .. PassCount }
OutputIdAt(pos) == raw.passes[pos[1]].outputs[pos[2]].id
ScannedBefore(p, q) == p[1] < q[1] \/ (p[1] = q[1] /\ p[2] < q[2])

\* An output that produces what already exists: SOURCE, or an id of an
\* earlier output.
Reproduces(pos) ==
    \/ OutputIdAt(pos) = "SOURCE"
    \/ \E q \in OutputPositions : ScannedBefore(q, pos) /\ OutputIdAt(q) = OutputIdAt(pos)

\* The rules of the manifest.
RuleHeader == raw.id # "" /\ raw.name # "" /\ PassCount >= 1
RuleComplete == \A i \in 1 .. PassCount : raw.passes[i].inputs # <<>> /\ raw.passes[i].outputs # <<>>
RuleSlots(i) == \A b \in SlotsOf(raw.passes[i]) : SlotUses(raw.passes[i], b) = 1
RuleBindings == \A i \in 1 .. PassCount : RuleSlots(i)
RuleResult == \A i \in 1 .. (PassCount - 1) : "RESULT" \notin OutputIds(i)
RuleNoOverwrite == \A pos \in OutputPositions : ~Reproduces(pos)
RuleInputsAt(i) ==
    \A id \in InputIds(i) : id = "SOURCE" \/ \E j \in 1 .. (i - 1) : id \in OutputIds(j)
RuleInputs == \A i \in 1 .. PassCount : RuleInputsAt(i)

\* C5 as stated: the RESULT-misplacement error is reported exactly for the
\* manifests in which some pass other than the last outputs RESULT.
C5_AsStated ==
    Validated => (validation.kind = "ResultNotInLastPass" <=> ~RuleResult)

\* C5, amended: among the manifests that pass the earlier checks (id, name,
\* a pass, inputs and outputs in every pass, distinct slots in every pass)
\* the RESULT-misplacement error is reported exactly for those in which some
\* pass other than the last outputs RESULT; it carries the index of the
\* first such pass, it is never reported when RESULT is output by the final
\* pass only, and a manifest with RESULT in the final pass that breaks no
\* rule is accepted.
C5_ResultMisplacement ==
    Validated =>
        /\ (RuleHeader /\ RuleComplete /\ RuleBindings) =>
              (validation.kind = "ResultNotInLastPass" <=> ~RuleResult)
        /\ validation.kind = "ResultNotInLastPass" =>
              /\ validation.pass + 1 < PassCount
              /\ "RESULT" \in OutputIds(validation.pass + 1)
              /\ \A j \in 1 .. validation.pass : "RESULT" \notin OutputIds(j)
        /\ RuleResult => validation.kind # "ResultNotInLastPass"
        /\ (/\ RuleHeader /\ RuleComplete /\ RuleBindings /\ RuleResult
            /\ RuleNoOverwrite /\ RuleInputs
            /\ "RESULT" \in OutputIds(PassCount)) => validation = Ok

\* A manifest of two passes whose first pass outputs RESULT, rejected with
\* the index of that pass.
C5_Witness ==
    /\ PassCount = 2
    /\ "RESULT" \in OutputIds(1)
    /\ validation = ResultNotInLastPass(0)

\* C6: a manifest that passes the earlier checks and produces an id more
\* than once (also twice in one pass), or outputs SOURCE, is rejected with
\* TextureOverwritten(pass, id), the pass being that of the second
\* production of the id.
C6_TextureOverwritten ==
    (Validated /\ RuleHeader /\ RuleComplete /\ RuleBindings /\ RuleResult) =>
        /\ ~RuleNoOverwrite <=> validation.kind = "TextureOverwritten"
        /\ ~RuleNoOverwrite =>
              \E pos \in OutputPositions :
                  /\ pos[1] = validation.pass + 1
                  /\ OutputIdAt(pos) = validation.id
                  /\ Reproduces(pos)
                  /\ \A q \in OutputPositions : ScannedBefore(q, pos) => ~Reproduces(q)
                  /\ Cardinality({ q \in OutputPositions :
                                     ScannedBefore(q, pos) /\ OutputIdAt(q) = validation.id })
                        = IF validation.id = "SOURCE" THEN 0 ELSE 1

\* A pass that outputs one id twice, rejected with its own index.
C6_Witness ==
    /\ validation.kind = "TextureOverwritten"
    /\ validation.id = "A"
    /\ \E i \in 1 .. PassCount :
          /\ validation.pass = i - 1
          /\ Len(raw.passes[i].outputs) = 2
          /\ raw.passes[i].outputs[1].id = "A"
          /\ raw.passes[i].outputs[2].id = "A"
          /\ \A j \in 1 .. (i - 1) : "A" \notin OutputIds(j)

\* C7: a manifest that passes the earlier checks and has a pass reading an
\* id that is neither SOURCE nor an output of a strictly earlier pass is
\* rejected with InputTextureNotFound(pass, id); reading what only the pass
\* itself or a later pass produces is rejected.
C7_InputTextureNotFound ==
    (Validated /\ RuleHeader /\ RuleComplete /\ RuleBindings /\ RuleResult /\ RuleNoOverwrite) =>
        /\ ~RuleInputs <=> validation.kind = "InputTextureNotFound"
        /\ ~RuleInputs =>
              /\ validation.pass + 1 \in 1 .. PassCount
              /\ ~RuleInputsAt(validation.pass + 1)
              /\ \A j \in 1 .. validation.pass : RuleInputsAt(j)
              /\ validation.id \in InputIds(validation.pass + 1)
              /\ validation.id # "SOURCE"
              /\ \A j \in 1 .. validation.pass : validation.id \notin OutputIds(j)

\* A pass that reads an id produced by itself and by no earlier pass.
C7_Witness ==
    /\ validation.kind = "InputTextureNotFound"
    /\ validation.id \in OutputIds(validation.pass + 1)

\* C8: a manifest that passes the earlier checks and has a pass using one
\* slot twice among inputs, outputs and samplers is rejected with
\* DuplicateBinding(pass, binding); a validated manifest has pairwise
\* distinct slots within every pass.
C8_DuplicateBinding ==
    Validated =>
        /\ (RuleHeader /\ RuleComplete) =>
              /\ ~RuleBindings <=> validation.kind = "DuplicateBinding"
              /\ ~RuleBindings =>
                    /\ validation.pass + 1 \in 1 .. PassCount
                    /\ SlotUses(raw.passes[validation.pass + 1], validation.binding) >= 2
                    /\ \A j \in 1 .. validation.pass : RuleSlots(j)
        /\ validation = Ok => RuleBindings

\* A pass whose only repeated slot is shared by an output and a sampler.
C8_Witness ==
    /\ validation.kind = "DuplicateBinding"
    /\ LET pass == raw.passes[validation.pass + 1]
       IN  /\ \E k \in 1 .. Len(pass.outputs) : pass.outputs[k].binding = validation.binding
           /\ \E k \in 1 .. Len(pass.samplers) : pass.samplers[k].binding = validation.binding
           /\ SlotUses(pass, validation.binding) = 2

\* C9: validate returns Ok exactly when all rules hold together, and an
\* error names a rule the manifest breaks, with the index, id or slot of a
\* pass that breaks it.
C9_OkIffAllRules ==
    Validated =>
        /\ validation = Ok <=>
              (RuleHeader /\ RuleComplete /\ RuleBindings /\ RuleResult
               /\ RuleNoOverwrite /\ RuleInputs)
        /\ validation.kind \in
              { "Ok", "EmptyId", "EmptyName", "NoPasses", "PassMissingInputs", "PassMissingOutputs",
                "DuplicateBinding", "ResultNotInLastPass", "TextureOverwritten",
                "InputTextureNotFound" }
        /\ validation = EmptyId => raw.id = ""
        /\ validation = EmptyName => raw.name = ""
        /\ validation = NoPasses => PassCount = 0
        /\ validation.kind \notin { "Ok", "EmptyId", "EmptyName", "NoPasses" } =>
              validation.pass + 1 \in 1 .. PassCount
        /\ validation.kind = "PassMissingInputs" => raw.passes[validation.pass + 1].inputs = <<>>
        /\ validation.kind = "PassMissingOutputs" => raw.passes[validation.pass + 1].outputs = <<>>
        /\ validation.kind = "DuplicateBinding" =>
              SlotUses(raw.passes[validation.pass + 1], validation.binding) >= 2
        /\ validation.kind = "ResultNotInLastPass" =>
              validation.pass + 1 # PassCount /\ "RESULT" \in OutputIds(validation.pass + 1)
        /\ validation.kind = "TextureOverwritten" =>
              \E pos \in OutputPositions :
                  pos[1] = validation.pass + 1 /\ OutputIdAt(pos) = validation.id /\ Reproduces(pos)
        /\ validation.kind = "InputTextureNotFound" =>
              /\ validation.id \in InputIds(validation.pass + 1)
              /\ validation.id # "SOURCE"
              /\ \A j \in 1 .. validation.pass : validation.id \notin OutputIds(j)

\* An accepted manifest of two passes, the second reading an output of the
\* first and writing RESULT.
C9_Witness ==
    /\ validation = Ok
    /\ PassCount = 2
    /\ "A" \in InputIds(2) /\ "A" \in OutputIds(1)
    /\ "RESULT" \in OutputIds(2)
    /\ raw.passes[2].samplers # <<>>

(***************************************************************************)
(* Properties of compile.                                                  *)
(***************************************************************************)
\* compile has returned a pipeline.
Compiled == compiled.kind = "Ok"

\* The outputs of the manifest with the given id, in scan order.
ProducersOf(id) ==
    LET outs == OutputsFrom(raw.passes, 1)
    IN  { outs[k].output : k \in { j \in 1 .. Len(outs) : outs[j].id = id } }

\* The entries of the returned physical texture list with the given id.
PhysicalTexturesWithId(id) ==
    LET textures == compiled.pipeline.physical_textures
    IN  { textures[k] : k \in { j \in 1 .. Len(textures) : textures[j].id = id } }

\* The returned passes are the authored passes, in order.
PassesInOrder ==
    /\ Len(compiled.pipeline.passes) = Len(raw.passes)
    /\ \A i \in 1 .. Len(raw.passes) : compiled.pipeline.passes[i].id = raw.passes[i].id

\* Every binding keeps its logical id and slot, and its physical id is the
\* allocator's assignment for the logical id.
BindingsResolved ==
    \A i \in 1 .. Len(raw.passes) :
        LET pass == raw.passes[i]
            built == compiled.pipeline.passes[i]
        IN  /\ Len(built.input_textures) = Len(pass.inputs)
            /\ Len(built.output_textures) = Len(pass.outputs)
            /\ \A k \in 1 .. Len(pass.inputs) :
                  /\ built.input_textures[k].logical_id = pass.inputs[k].id
                  /\ built.input_textures[k].binding = pass.inputs[k].binding
                  /\ built.input_textures[k].physical_id = texture_assignments[pass.inputs[k].id]
            /\ \A k \in 1 .. Len(pass.outputs) :
                  /\ built.output_textures[k].logical_id = pass.outputs[k].id
                  /\ built.output_textures[k].binding = pass.outputs[k].binding
                  /\ built.output_textures[k].physical_id = texture_assignments[pass.outputs[k].id]

\* An input binding has the components and scale of an output of its
\* logical id; 4 and 1/1 for SOURCE.
InputFormatOfProducer(input) ==
    IF input.logical_id = "SOURCE"
    THEN input.components = 4 /\ input.scale_factor = UnityScale
    ELSE \E output \in ProducersOf(input.logical_id) :
            /\ input.components = output.components
            /\ input.scale_factor = <<output.scale_factor[1], output.scale_factor[2]>>

\* An input binding has the components and scale of the physical texture
\* entry with its physical id.
InputFormatOfPhysicalTexture(input) ==
    /\ PhysicalTexturesWithId(input.physical_id) # {}
    /\ \A texture \in PhysicalTexturesWithId(input.physical_id) :
          /\ input.components = texture.components
          /\ input.scale_factor = texture.scale_factor

\* The input bindings of the returned pipeline.
InputBindings ==
    UNION { { compiled.pipeline.passes[i].input_textures[k] :
                k \in 1 .. Len(compiled.pipeline.passes[i].input_textures) } :
            i \in 1 .. Len(compiled.pipeline.passes) }

\* C10: in the pipeline compile returns, the passes are in authored order,
\* every binding keeps its logical id and slot and carries the allocator's
\* physical id for it, and every input binding has the components and scale
\* of the output that produced its logical id (4 and 1/1 for SOURCE), which
\* are those of the physical texture entry with its physical id.
C10_AsStated ==
    Compiled =>
        /\ PassesInOrder
        /\ BindingsResolved
        /\ \A input \in InputBindings :
              InputFormatOfProducer(input) /\ InputFormatOfPhysicalTexture(input)

\* A returned pipeline in which a pass reads A, an id two passes write with
\* different component counts: the binding has the components of the first
\* output and the physical id of the second.
C10_Mismatch ==
    /\ Compiled
    /\ PassesInOrder /\ BindingsResolved
    /\ \E input \in InputBindings :
          /\ input.logical_id = "A"
          /\ InputFormatOfProducer(input)
          /\ input.components = 4
          /\ \E texture \in PhysicalTexturesWithId(input.physical_id) : texture.components = 1

\* The file names of the authored passes, in order.
AuthoredFiles == [i \in 1 .. Len(raw.passes) |-> raw.passes[i].file]

\* C11: during one compile the loader is called once per pass, in pass
\* order, with the pass's file name: the calls made so far are always the
\* file names of the first passes, one call per collected pass; a compile
\* that returns a pipeline has called it for every pass; when the loader
\* fails for pass k the calls are those for passes 0..k and compile has
\* returned, so that no later pass is loaded.
C11_LoaderOncePerPassInOrder ==
    /\ Len(loader_calls) <= Len(raw.passes)
    /\ loader_calls = SubSeq(AuthoredFiles, 1, Len(loader_calls))
    /\ compile_pc \in { "passes", "done", "panicked" } => Len(loader_calls) = Len(shader_passes)
    /\ compile_pc = "done" => loader_calls = AuthoredFiles
    /\ compile_pc = "failed" =>
          /\ Len(loader_calls) = Len(shader_passes) + 1
          /\ compiled.kind = "Err"
          /\ ~ENABLED NextCompile

\* The loader fails for the second of three passes, after two calls.
C11_Witness ==
    /\ compile_pc = "failed"
    /\ Len(raw.passes) = 3
    /\ loader_calls = <<"pass1.wgsl", "pass2.wgsl">>

\* The error mentions the given text.
Mentions(error, text) == \E k \in 1 .. Len(error.message) : error.message[k] = text

\* C12: when the loader fails for a pass, compile returns an error and no
\* pipeline, and the error identifies the failing pass by its file name and
\* its pass id.
C12_AsStated ==
    compile_pc = "failed" =>
        /\ compiled.kind = "Err"
        /\ LET pass == raw.passes[Len(loader_calls)]
           IN  Mentions(compiled.error, pass.file) /\ Mentions(compiled.error, pass.id)

\* The loader fails for the first pass with the error of read_to_string:
\* compile returns it as it is, naming neither the file nor the pass.
C12_Unidentified ==
    /\ compile_pc = "failed"
    /\ compiled.kind = "Err"
    /\ Len(loader_calls) = 1
    /\ ~Mentions(compiled.error, raw.passes[1].file)
    /\ ~Mentions(compiled.error, raw.passes[1].id)

\* The inputs of the manifest that have no physical assignment: the ids
\* read by some pass that are neither SOURCE nor an output of any pass, with
\* the index of the pass.
UnassignedInputs ==
    { <<i - 1, id>> : <<i, id>> \in
        { x \in (1 .. Len(raw.passes)) \X { "SOURCE", "RESULT", "A", "B" } :
            /\ x[2] \in InputIdsOf(raw.passes[x[1]])
            /\ x[2] # "SOURCE"
            /\ ProducersOf(x[2]) = {} } }

\* C13: compiling a manifest in which an input has no physical assignment
\* fails with an error returned as a value: compile does not panic, and it
\* returns no pipeline for it.
C13_AsStated ==
    UnassignedInputs # {} =>
        /\ compiled.kind # "Panic"
        /\ compiled.kind # "Ok"
        /\ compile_pc # "panicked"

\* The single pass of a manifest reads A, which nothing produces, and
\* writes B: the closure panics on the lookup of A before the loader is
\* called.
C13_Panics ==
    /\ Len(raw.passes) = 1
    /\ UnassignedInputs = { <<0, "A">> }
    /\ raw.passes[1].outputs # <<>>
    /\ compiled.kind = "Panic"
    /\ loader_calls = <<>>

\* The filter modes of all sampler bindings, passes in order and each
\* pass's samplers in order.
RECURSIVE FilterModesFrom(_)
FilterModesFrom(i) ==
    IF i > Len(raw.passes) THEN <<>>
    ELSE [k \in 1 .. Len(raw.passes[i].samplers) |-> raw.passes[i].samplers[k].filter_mode]
         \o FilterModesFrom(i + 1)

FilterModes == FilterModesFrom(1)

\* Where a mode occurs first in a list that holds it.
FirstOccurrence(list, mode) == First({ k \in 1 .. Len(list) : list[k] = mode })

\* C14: required_samplers of the returned pipeline holds exactly the filter
\* modes of the passes' sampler bindings, each once, in the order of their
\* first occurrence; it is empty when no pass declares a sampler.
C14_RequiredSamplers ==
    Compiled =>
        LET required == compiled.pipeline.required_samplers
        IN  /\ { required[k] : k \in 1 .. Len(required) }
                 = { FilterModes[k] : k \in 1 .. Len(FilterModes) }
            /\ \A j, k \in 1 .. Len(required) : required[j] = required[k] => j = k
            /\ \A j, k \in 1 .. Len(required) :
                  j < k => FirstOccurrence(FilterModes, required[j])
                             < FirstOccurrence(FilterModes, required[k])
            /\ FilterModes = <<>> => required = <<>>

\* Three passes whose samplers are Linear, then Nearest twice, then Linear
\* around Nearest: the list is Linear, Nearest.
C14_Witness ==
    /\ Compiled
    /\ Len(raw.passes) = 3
    /\ FilterModes = <<"Linear", "Nearest", "Nearest", "Linear", "Nearest", "Linear">>
    /\ compiled.pipeline.required_samplers = <<"Linear", "Nearest">>

(***************************************************************************)
(* Properties of ScaleFactor as text.                                      *)
(***************************************************************************)
\* A text "n": one or more digits, after a plus sign or not.
Numeral(t) ==
    LET digits == IF t # <<>> /\ t[1] = "+" THEN Tail(t) ELSE t
    IN  digits # <<>> /\ \A k \in 1 .. Len(digits) : IsDigit(digits[k])

\* The places of the slashes of a text.
Slashes(t) == { k \in 1 .. Len(t) : t[k] = "/" }

\* A text "n/d" with d > 0: numerals around one slash, the second with a
\* digit other than 0.
Fraction(t) ==
    /\ Cardinality(Slashes(t)) = 1
    /\ LET k == CHOOSE j \in Slashes(t) : TRUE
           n == SubSeq(t, 1, k - 1)
           d == SubSeq(t, k + 1, Len(t))
       IN  Numeral(n) /\ Numeral(d) /\ \E j \in 1 .. Len(d) : IsDigit(d[j]) /\ d[j] # "0"

\* from_str has been applied to the text.
TextParsed == scale_pc \in { "parsed", "formatted", "reparsed" }

\* C15: the texts "n" and "n/d" with d > 0 parse, and parsing what Display
\* writes for the parsed value gives that value again; a value n/1 is
\* written without a slash, as "n"; every other text fails to parse, among
\* them "n/0", texts with more than one slash and non-numeric texts.
C15_ParseFormatParse ==
    /\ TextParsed => (scale_parsed.kind = "Ok" <=> (Numeral(scale_text) \/ Fraction(scale_text)))
    /\ (TextParsed /\ Numeral(scale_text)) =>
          scale_parsed.kind = "Ok" /\ scale_parsed.value.denominator = 1
    /\ (TextParsed /\ Cardinality(Slashes(scale_text)) > 1) => scale_parsed.kind = "Err"
    /\ scale_pc \in { "formatted", "reparsed" } =>
          /\ scale_parsed.value.denominator = 1 => Numeral(scale_formatted)
          /\ scale_parsed.value.denominator # 1 => Fraction(scale_formatted)
    /\ scale_pc = "reparsed" => scale_reparsed = scale_parsed

\* "02/1" parses to 2/1, which is written "2" and parses to 2/1 again.
C15_Witness ==
    /\ scale_pc = "reparsed"
    /\ scale_text = <<"0", "2", "/", "1">>
    /\ scale_formatted = <<"2">>
    /\ scale_reparsed = Parsed(ScaleFactor(2, 1))

(***************************************************************************)
(* Properties of MpvHook::new.                                             *)
(***************************************************************************)
\* MpvHook::new has been called, and the scale lines of the block of the
\* last call, by position.
HookCalled == hook # Pending
ScaleLinesAt == { k \in 1 .. Len(pass_source) : pass_source[k].directive \in { "WIDTH", "HEIGHT" } }

\* The scale lines of the block whose base texture the map of the call
\* holds, and what such a line resolves to: the registered scale of the
\* base times the multiplier, 1 when there is none.
ResolvableAt ==
    { k \in ScaleLinesAt : pass_source[k].matched /\ pass_source[k].base \in DOMAIN map_at_call }
Resolved(k) ==
    map_at_call[pass_source[k].base]
        * (IF pass_source[k].ratio = None THEN 1 ELSE pass_source[k].ratio[1])

\* C16: MpvHook::new fails when two scale directives of the block resolve
\* to different scale factors, a directive that resolves to 0 included, when
\* the block has no scale directive, and when a base texture is not in the
\* running map.
C16_AsStated ==
    HookCalled =>
        /\ (\E j, k \in ResolvableAt : Resolved(j) # Resolved(k)) => hook.kind = "Err"
        /\ ScaleLinesAt = {} => hook.kind = "Err"
        /\ (\E k \in ScaleLinesAt : pass_source[k].matched
                /\ pass_source[k].base \notin DOMAIN map_at_call) => hook.kind = "Err"

\* WIDTH MAIN.w 0 * resolves to 0 and HEIGHT MAIN.h 2 * to 2: the call
\* returns a hook of scale factor 2.
C16_ZeroThenTwo ==
    /\ HookCalled
    /\ hook.kind = "Ok"
    /\ \E j, k \in ResolvableAt : j < k /\ Resolved(j) = 0 /\ Resolved(k) = 2
    /\ hook.hook.scale_factor = 2

\* The content of the last SAVE line of the block, MAIN standing for dest.
SavedName ==
    LET saves == { k \in 1 .. Len(pass_source) : pass_source[k].directive = "SAVE" }
        content == pass_source[CHOOSE k \in saves : \A j \in saves : j <= k].content
    IN  IF content = "MAIN" THEN "dest" ELSE content

\* C17: after a call that returned a hook the running map holds, for the
\* SAVE name of the block (dest for MAIN), the scale every scale directive
\* of the block resolves to, and every other entry is as it was.
C17_AsStated ==
    (HookCalled /\ hook.kind = "Ok") =>
        /\ SavedName \in DOMAIN scale_factor_map
        /\ ScaleLinesAt # {}
        /\ \A k \in ScaleLinesAt : k \in ResolvableAt /\ scale_factor_map[SavedName] = Resolved(k)
        /\ DOMAIN scale_factor_map = DOMAIN map_at_call \cup { SavedName }
        /\ \A name \in DOMAIN map_at_call \ { SavedName } : scale_factor_map[name] = map_at_call[name]

\* The block saves conv1 with WIDTH MAIN.w 0 * and HEIGHT MAIN.h 2 *: the
\* map holds 2 for conv1, not what the WIDTH directive resolves to.
C17_ZeroRegisteredAsTwo ==
    /\ HookCalled
    /\ hook.kind = "Ok"
    /\ SavedName = "conv1"
    /\ scale_factor_map["conv1"] = 2
    /\ \E k \in ResolvableAt : pass_source[k].directive = "WIDTH" /\ Resolved(k) = 0

\* The names a block may read: the pre-seeded ones and the outputs of the
\* hooks returned before the last call.
SavedBefore ==
    LET before == IF hook.kind = "Ok" THEN SubSeq(saved_outputs, 1, Len(saved_outputs) - 1)
                  ELSE saved_outputs
    IN  { before[k] : k \in 1 .. Len(before) }
Known == { "MAIN", "HOOKED", "source" } \cup SavedBefore

\* C18: with one running map over the blocks in order, a call returns a
\* hook only if every BIND content and every WIDTH/HEIGHT base of the block
\* is a pre-seeded name or the output of a hook returned before; a block
\* that reads a texture only it saves, or only a later block saves, fails;
\* after a failure no further block is read.
C18_ReadsOnlyEarlierOutputs ==
    /\ (HookCalled /\ hook.kind = "Ok") =>
          /\ \A k \in 1 .. Len(pass_source) :
                pass_source[k].directive = "BIND" => pass_source[k].content \in Known
          /\ \A k \in ScaleLinesAt : pass_source[k].matched /\ pass_source[k].base \in Known
    /\ (HookCalled /\ hook.kind = "Err") => hooks_pc = "failed" /\ scale_factor_map = map_at_call
    /\ hooks_pc = "failed" => hook.kind = "Err"
    /\ Len(saved_outputs) <= pass_index

\* The first block binds conv1 and saves conv1: the call fails, naming the
\* input.
C18_Witness ==
    /\ pass_index = 1
    /\ hook.kind = "Err"
    /\ hook.error = <<"Unknown input texture: ", "conv1">>
    /\ SavedName = "conv1"

\* The second block binds conv1, saved by the first, and scales from it.
C18_WitnessChain ==
    /\ pass_index = 2
    /\ hook.kind = "Ok"
    /\ saved_outputs[1] = "conv1"
    /\ "conv1" \in { hook.hook.inputs[k] : k \in 1 .. Len(hook.hook.inputs) }
    /\ \E k \in ScaleLinesAt : pass_source[k].base = "conv1"

(***************************************************************************)
(* Properties of the translation of a convolution stage.                   *)
(***************************************************************************)
\* WgslStageShader::new has returned for a convolution hook.
StageTranslated == stage_pc \in { "done", "failed" } /\ stage_source.type = "Conv"

\* The lines of the body that, trimmed, match no pattern and are neither a
\* comment nor blank, by position.
Unrecognized ==
    { k \in 1 .. Len(stage_source.code) :
        LET line == stage_source.code[k].trimmed
        IN  /\ line.pattern = ""
            /\ ~line.comment
            /\ line.text # "" }

\* The translation failed, with an error that names line k of the body and
\* the hook.
NamesLine(k) ==
    /\ stage.kind = "Err"
    /\ \E i \in 1 .. Len(stage.error) : stage.error[i] = stage_source.code[k].trimmed.text
    /\ \E i \in 1 .. Len(stage.error) :
          /\ i + Len(stage_source.name) - 1 <= Len(stage.error)
          /\ SubSeq(stage.error, i, i + Len(stage_source.name) - 1) = stage_source.name

\* The lines before line k alone translate.
TranslatesBefore(k) ==
    convert_conv_hook_code([stage_source EXCEPT !.code = SubSeq(stage_source.code, 1, k - 1)],
                           stage_map).kind = "Ok"

\* C19 as stated: translating a convolution pass whose body holds a line
\* that is not recognized fails with an error that names such a line and
\* the pass, and returns no shader text.
C19_AsStated ==
    (StageTranslated /\ Unrecognized # {}) =>
        /\ stage.kind = "Err"
        /\ \E k \in Unrecognized : NamesLine(k)

\* C19: translating a convolution pass whose body holds a line that is not
\* recognized fails and returns no shader text; the error is the first one
\* of the body: it names the first line that is not recognized, and the
\* pass, exactly when the lines before that line translate, and is the
\* error of an earlier line otherwise.
C19_FirstErrorOfTheBody ==
    (StageTranslated /\ Unrecognized # {}) =>
        /\ stage.kind = "Err"
        /\ "code" \notin DOMAIN stage
        /\ "shader" \notin DOMAIN stage
        /\ NamesLine(First(Unrecognized)) <=> TranslatesBefore(First(Unrecognized))
        /\ \A k \in Unrecognized \ { First(Unrecognized) } :
              NamesLine(k) =>
                  stage_source.code[k].trimmed.text = stage_source.code[First(Unrecognized)].trimmed.text

\* A body whose third line is not recognized, after a macro and the entry
\* line that translate: the error names the third line.
C19_Witness ==
    /\ StageTranslated
    /\ Unrecognized = { 3 }
    /\ stage_source.code[1].trimmed.pattern = "go_macro"
    /\ stage_source.code[2].trimmed.pattern = "entrypoint_begin"
    /\ stage_source.code[3].lead # ""
    /\ NamesLine(3)

\* A body whose first line is a macro over an unknown texture and whose
\* second line is not recognized: the error is the one of the macro.
C19_EarlierError ==
    /\ StageTranslated
    /\ Unrecognized = { 2 }
    /\ stage.kind = "Err"
    /\ stage.error = <<"Unknown texture: ", "conv9">>
    /\ ~NamesLine(2)

(***************************************************************************)
(* Properties of collect_texture_lifetimes.                                *)
(***************************************************************************)
\* The outputs of the manifest, by position of the pass and of the output.
AuthoredOutputs ==
    { x \in (1 .. Len(raw.passes)) \X (1 .. 2) : x[2] <= Len(raw.passes[x[1]].outputs) }
AuthoredOutput(x) == raw.passes[x[1]].outputs[x[2]]

\* No two outputs of the manifest have the same id.
OutputsUnique ==
    \A x, y \in AuthoredOutputs : AuthoredOutput(x).id = AuthoredOutput(y).id => x = y

\* The lifetimes have been collected.
LifetimesCollected == compile_pc \in { "passes", "done", "failed", "panicked" }

\* The places of the lifetimes of an id.
LifetimesOf(id) == { k \in 1 .. Len(texture_lifetimes) : texture_lifetimes[k].logical_id = id }

\* The passes after the pass at position i that read the id, by position.
LaterReaders(i, id) ==
    { j \in (i + 1) .. Len(raw.passes) :
        \E k \in 1 .. Len(raw.passes[j].inputs) : raw.passes[j].inputs[k].id = id }

\* C20: for a manifest whose outputs are unique, collect_texture_lifetimes
\* returns one lifetime per output other than SOURCE and no other, with
\* the components and scale of the output, created_at the index of its
\* pass, and last_used_at the greatest index of a later pass that reads the
\* id, created_at when there is none, so that created_at <= last_used_at;
\* the list is in the order of created_at, the outputs of one pass in
\* their declared order.
C20_Lifetimes ==
    (LifetimesCollected /\ OutputsUnique) =>
        /\ Len(texture_lifetimes) = Cardinality({ x \in AuthoredOutputs : AuthoredOutput(x).id # "SOURCE" })
        /\ LifetimesOf("SOURCE") = {}
        /\ \A x \in AuthoredOutputs :
              LET output == AuthoredOutput(x)
                  readers == LaterReaders(x[1], output.id)
              IN  output.id # "SOURCE" =>
                    /\ Cardinality(LifetimesOf(output.id)) = 1
                    /\ \A k \in LifetimesOf(output.id) :
                          /\ texture_lifetimes[k].components = output.components
                          /\ texture_lifetimes[k].scale_factor[1] = output.scale_factor[1]
                          /\ texture_lifetimes[k].scale_factor[2] = output.scale_factor[2]
                          /\ texture_lifetimes[k].created_at = x[1] - 1
                          /\ readers = {} => texture_lifetimes[k].last_used_at = x[1] - 1
                          /\ readers # {} =>
                                /\ texture_lifetimes[k].last_used_at + 1 \in readers
                                /\ \A j \in readers : j - 1 <= texture_lifetimes[k].last_used_at
        /\ \A k \in 1 .. Len(texture_lifetimes) :
              texture_lifetimes[k].created_at <= texture_lifetimes[k].last_used_at
        /\ \A j, k \in 1 .. Len(texture_lifetimes) :
              j < k => texture_lifetimes[j].created_at <= texture_lifetimes[k].created_at
        /\ \A x, y \in AuthoredOutputs :
              (x[1] = y[1] /\ x[2] < y[2] /\ AuthoredOutput(x).id # "SOURCE") =>
                  \A j \in LifetimesOf(AuthoredOutput(x).id), k \in LifetimesOf(AuthoredOutput(y).id) : j < k

\* Three passes: the first writes SOURCE and B, the second reads B and
\* writes A, the third reads B again and writes RESULT.  SOURCE has no
\* lifetime, B lives from 0 to 2, then come A and RESULT.
C20_Witness ==
    /\ LifetimesCollected /\ OutputsUnique
    /\ Len(raw.passes) = 3
    /\ raw.passes[1].outputs = <<Out("SOURCE", 2), Out("B", 3)>>
    /\ LaterReaders(1, "B") = { 2, 3 }
    /\ Len(texture_lifetimes) = 3
    /\ texture_lifetimes[1].logical_id = "B"
    /\ texture_lifetimes[1].created_at = 0
    /\ texture_lifetimes[1].last_used_at = 2
    /\ texture_lifetimes[2].logical_id = "A"
    /\ texture_lifetimes[3].logical_id = "RESULT"

(***************************************************************************)
(* Properties of the access flags of a hook.                               *)
(***************************************************************************)
\* The scales the map of the call holds for the BIND contents of the
\* block, source standing for MAIN.
BoundInputScales ==
    { map_at_call[IF pass_source[k].content = "MAIN" THEN "source" ELSE pass_source[k].content] :
        k \in { j \in 1 .. Len(pass_source) : pass_source[j].directive = "BIND" } }

\* C21: after a call that returned a hook, needs_bound is true exactly when
\* some input's registered scale is the scale factor of the hook, and
\* needs_sampler exactly when some input's registered scale is another one;
\* at least one of the two is true.
C21_AccessFlags ==
    (HookCalled /\ hook.kind = "Ok") =>
        /\ hook.hook.needs_bound <=> hook.hook.scale_factor \in BoundInputScales
        /\ hook.hook.needs_sampler <=> BoundInputScales \ { hook.hook.scale_factor } # {}
        /\ hook.hook.needs_bound \/ hook.hook.needs_sampler

\* The second block binds MAIN, of scale 1, and conv2, saved at scale 2 by
\* the first: both flags are true.
C21_Witness ==
    /\ pass_index = 2
    /\ hook.kind = "Ok"
    /\ BoundInputScales = { 1, 2 }
    /\ hook.hook.needs_bound
    /\ hook.hook.needs_sampler

(***************************************************************************)
(* Properties of parse_mpv_hooks.                                          *)
(***************************************************************************)
\* The lines of the source, and those that start with the DESC prefix.
SourceLines == lines(glsl_source)
DescLines == { k \in 1 .. Len(SourceLines) :
                 SourceLines[k] # <<>> /\ SourceLines[k][1] = "//!DESC " }

\* The i-th DESC line, and the line before which its segment ends.
RECURSIVE NthDesc(_)
NthDesc(i) ==
    IF i = 1 THEN First(DescLines)
    ELSE First({ k \in DescLines : k > NthDesc(i - 1) })
SegmentEnd(i) ==
    IF i = Cardinality(DescLines) THEN Len(SourceLines) + 1 ELSE NthDesc(i + 1)

\* The lines from a to b - 1, each followed by a line feed.
RECURSIVE Written(_, _)
Written(a, b) ==
    IF a >= b THEN <<>> ELSE SourceLines[a] \o <<"\n">> \o Written(a + 1, b)

\* C22: parse_mpv_hooks returns one block per line that starts with
\* "//!DESC ", in source order; the block of a DESC line is that line and
\* the lines after it up to the next DESC line or the end, each as it is
\* in the source and followed by a line feed, so that a block starts with
\* a DESC line and holds no other, the lines before the first DESC line are
\* in no block, and a source without DESC line gives no block.
C22_SplitIsLossless ==
    split_pc = "split" =>
        /\ Len(hooks) = Cardinality(DescLines)
        /\ \A i \in 1 .. Len(hooks) :
              /\ hooks[i] = Written(NthDesc(i), SegmentEnd(i))
              /\ hooks[i][1] = "//!DESC "
              /\ \A k \in 2 .. Len(hooks[i]) : hooks[i][k] = "//!DESC " => hooks[i][k - 1] # "\n"
        /\ DescLines = {} => hooks = <<>>

\* An empty line before the first DESC line, then two DESC lines, the
\* first with a line after it that holds the prefix in its middle: two
\* blocks.
C22_Witness ==
    /\ split_pc = "split"
    /\ glsl_source = <<"\n", "//!DESC ", "\n", "a", "//!DESC ", "\n", "//!DESC ">>
    /\ hooks = << <<"//!DESC ", "\n", "a", "//!DESC ", "\n">>, <<"//!DESC ", "\n">> >>

(***************************************************************************)
(* Properties of the accumulations of a convolution stage.                 *)
(***************************************************************************)
\* The shader text WgslStageShader::new returned for a convolution hook.
StageCode == stage.shader.type.code
StageOk == StageTranslated /\ stage.kind = "Ok"

\* The places of the accumulations in the body and of the accumulations
\* written, and the i-th of each.
AccumulationsAt ==
    { k \in 1 .. Len(stage_source.code) : stage_source.code[k].trimmed.pattern = "result_add_prod" }
WrittenAddsAt ==
    { k \in 1 .. Len(StageCode) : "at" \in DOMAIN StageCode[k] }
RECURSIVE Nth(_, _)
Nth(S, i) == IF i = 1 THEN First(S) ELSE Nth(S \ { First(S) }, i - 1)
Accumulation(i) == stage_source.code[Nth(AccumulationsAt, i)].trimmed
WrittenAdd(i) == StageCode[Nth(WrittenAddsAt, i)]

\* The scale of the texture the macro of a name reads, as the map has it.
AccessorScale(func) ==
    LET k == First({ j \in 1 .. Len(stage_source.code) :
                       /\ stage_source.code[j].trimmed.pattern \in { "go_macro", "g_macro_relu" }
                       /\ stage_source.code[j].trimmed.name = func })
        texture == stage_source.code[k].trimmed.texture
    IN  stage_map[IF texture = "MAIN" THEN "source" ELSE texture]

\* The pixels of an output of the given size, and the position next to a
\* pixel with the edge of the texture repeated beyond it.
Pixels(size) == (0 .. size[1] - 1) \X (0 .. size[2] - 1)
EdgeReplicated(pos, offsets, size) ==
    LET Within(v, n) == IF v < 0 THEN 0 ELSE IF v > n - 1 THEN n - 1 ELSE v
    IN  <<Within(pos[1] + offsets[1], size[1]), Within(pos[2] + offsets[2], size[2])>>

\* C23: an accumulation with offsets over an accessor at the scale of the
\* pass is written with a clamp against zero exactly when an offset is
\* negative and with a clamp against the bound exactly when an offset is
\* positive, and as the plain position for (0, 0); for every pixel of the
\* output the position read is within the texture and is the neighbour with
\* the edge repeated.  Over an accessor at another scale it is written as a
\* sampled access with the offsets and no clamp.
C23_OffsetAccess ==
    StageOk =>
        /\ Cardinality(WrittenAddsAt) = Cardinality(AccumulationsAt)
        /\ \A i \in 1 .. Cardinality(AccumulationsAt) :
              LET line == Accumulation(i)
                  at == WrittenAdd(i).at
              IN  line.offsets # None =>
                    LET offsets == line.offsets[1]
                    IN  IF AccessorScale(line.func) = stage_source.scale_factor
                        THEN /\ at[1] \in { "clamp", "max" } <=> (offsets[1] < 0 \/ offsets[2] < 0)
                             /\ at[1] \in { "clamp", "min" } <=> (offsets[1] > 0 \/ offsets[2] > 0)
                             /\ at[1] \in { "clamp", "max", "min", "pos" }
                             /\ \A size \in (1 .. MaxTextureSize) \X (1 .. MaxTextureSize) :
                                \A pos \in Pixels(size) :
                                   LET read == AccessedPosition(at, pos, <<size[1] - 1, size[2] - 1>>)
                                   IN  /\ read \in Pixels(size)
                                       /\ read = EdgeReplicated(pos, offsets, size)
                        ELSE at = <<"uv_pos", offsets[1], offsets[2]>>

\* At the scale of the source, accumulations with offsets (-1, 1) and
\* (0, 1): a clamp on both sides, then one against the bound only.
C23_Witness ==
    /\ StageOk
    /\ stage_source.scale_factor = 1
    /\ Cardinality(AccumulationsAt) = 2
    /\ Accumulation(1).offsets = Some(<<-1, 1>>)
    /\ Accumulation(2).offsets = Some(<<0, 1>>)
    /\ WrittenAdd(1).at = <<"clamp", -1, 1>>
    /\ WrittenAdd(2).at = <<"min", 0, 1>>

\* At twice the scale of the source, an accumulation with offsets over an
\* accessor with a fraction: a sampled access.
C23_WitnessSampled ==
    /\ StageOk
    /\ stage_source.scale_factor = 2
    /\ Accumulation(1).offsets = Some(<<1, -1>>)
    /\ WrittenAdd(1).at = <<"uv_pos", 1, -1>>

\* The scale of the texture of the macro at line k of the body, and the
\* last macro line before line k that defines the name.
MacroScale(k) ==
    LET texture == stage_source.code[k].trimmed.texture
    IN  stage_map[IF texture = "MAIN" THEN "source" ELSE texture]
MacrosBefore(k, func) ==
    { j \in 1 .. (k - 1) :
        /\ stage_source.code[j].trimmed.pattern \in { "go_macro", "g_macro_relu" }
        /\ stage_source.code[j].trimmed.name = func }
LastMacroBefore(k, func) == CHOOSE j \in MacrosBefore(k, func) : \A h \in MacrosBefore(k, func) : h <= j

\* The lines of the body at which access mode and scale disagree, and the
\* accumulations that call a name no earlier macro line defines.
FractionAtSameScale ==
    { k \in 1 .. Len(stage_source.code) :
        /\ stage_source.code[k].trimmed.pattern = "go_macro"
        /\ stage_source.code[k].trimmed.fraction # None
        /\ MacroScale(k) = stage_source.scale_factor }
PlainAtOtherScale ==
    { k \in 1 .. Len(stage_source.code) :
        /\ \/ /\ stage_source.code[k].trimmed.pattern = "go_macro"
              /\ stage_source.code[k].trimmed.fraction = None
           \/ stage_source.code[k].trimmed.pattern = "g_macro_relu"
        /\ MacroScale(k) # stage_source.scale_factor }
NoOffsetsAtOtherScale ==
    { k \in AccumulationsAt :
        /\ stage_source.code[k].trimmed.offsets = None
        /\ MacrosBefore(k, stage_source.code[k].trimmed.func) # {}
        /\ MacroScale(LastMacroBefore(k, stage_source.code[k].trimmed.func)) # stage_source.scale_factor }
UndefinedCalls ==
    { k \in AccumulationsAt : MacrosBefore(k, stage_source.code[k].trimmed.func) = {} }

\* C24: the translation of a convolution pass fails whenever its body holds
\* an offset accessor macro with a fraction over a texture at the scale of
\* the pass, an offset accessor macro without fraction or an accessor
\* macro without offsets over a texture at another scale, an accumulation
\* without offsets over an accessor at another scale, or an accumulation
\* that calls a name no earlier macro line defines; the error is the one of
\* the first such line.
C24_MismatchFails ==
    LET bad == FractionAtSameScale \cup PlainAtOtherScale \cup NoOffsetsAtOtherScale \cup UndefinedCalls
    IN  (StageTranslated /\ bad # {}) =>
            /\ stage.kind = "Err"
            /\ First(bad) \in FractionAtSameScale =>
                  stage.error = <<"Fraction should only be used for textures with different scale factors">>
            /\ (First(bad) \in PlainAtOtherScale
                    /\ stage_source.code[First(bad)].trimmed.pattern = "go_macro") =>
                  stage.error = <<"Fraction should be used for textures with different scale factors">>
            /\ (First(bad) \in NoOffsetsAtOtherScale
                    \/ (First(bad) \in PlainAtOtherScale
                          /\ stage_source.code[First(bad)].trimmed.pattern = "g_macro_relu")) =>
                  stage.error = <<"Non-offset macros should only be used for textures with the same scale factor">>
            /\ First(bad) \in UndefinedCalls =>
                  stage.error = <<"Unknown function: ", stage_source.code[First(bad)].trimmed.func>>

\* At twice the scale of the source, an accessor with a fraction over MAIN
\* translates; the second accumulation calls it without offsets.
C24_Witness ==
    /\ StageTranslated
    /\ stage_source.scale_factor = 2
    /\ FractionAtSameScale = {} /\ PlainAtOtherScale = {} /\ UndefinedCalls = {}
    /\ NoOffsetsAtOtherScale = { 4 }
    /\ stage.kind = "Err"

\* At the scale of the source, an accessor with a fraction over MAIN.
C24_WitnessFraction ==
    /\ StageTranslated
    /\ stage_source.scale_factor = 1
    /\ FractionAtSameScale = { 1 }
    /\ stage.kind = "Err"

(***************************************************************************)
(* Properties of the bindings of a convolution stage.                      *)
(***************************************************************************)
\* The bindings the shader text declares, and the sampler among them.
DeclaredBindings == { k \in 1 .. Len(StageCode) : "binding" \in DOMAIN StageCode[k] }
DeclaredSamplers == { k \in DeclaredBindings : "sampler" \in DOMAIN StageCode[k] }

\* C25: the shader text of a convolution stage with n inputs declares the
\* inputs at slots 0..n-1 in BIND order, the output at slot n, and a
\* sampler at slot n+1 exactly when needs_sampler; the sampler of the
\* WgslStageShader, and with it the samplers list of the pass, is present
\* exactly when the shader text declares the sampler.
C25_AsStated ==
    StageOk =>
        LET n == Len(stage_source.inputs)
        IN  /\ \A i \in 1 .. n :
                  \E k \in DeclaredBindings :
                      /\ StageCode[k].binding = i - 1
                      /\ "texture" \in DOMAIN StageCode[k]
                      /\ StageCode[k].texture = stage_source.inputs[i]
            /\ \E k \in DeclaredBindings :
                  /\ StageCode[k].binding = n
                  /\ "storage" \in DOMAIN StageCode[k]
                  /\ StageCode[k].storage = stage_source.output
            /\ DeclaredSamplers # {} <=> stage_source.needs_sampler
            /\ \A k \in DeclaredSamplers : StageCode[k].binding = n + 1
            /\ Cardinality(DeclaredBindings) = n + 1 + Cardinality(DeclaredSamplers)
            /\ stage.shader.sampler # None <=> DeclaredSamplers # {}
            /\ stage_pass.samplers # <<>> <=> DeclaredSamplers # {}

\* A stage at the scale of the source that binds conv1, saved at twice
\* that scale: the shader text declares the sampler at slot 2, the pass
\* has no sampler.
C25_DeclaredNotRecorded ==
    /\ StageOk
    /\ stage_source.scale_factor = 1
    /\ stage_source.inputs = <<"conv1">>
    /\ stage_source.needs_sampler
    /\ \E k \in DeclaredSamplers : StageCode[k].binding = 2
    /\ stage.shader.sampler = None
    /\ stage_pass.samplers = <<>>

\* A stage at twice the scale of the source whose only input is at that
\* scale: the pass has a sampler at slot 2, the shader text declares none.
C25_RecordedNotDeclared ==
    /\ StageOk
    /\ stage_source.scale_factor = 2
    /\ ~stage_source.needs_sampler
    /\ DeclaredSamplers = {}
    /\ stage_pass.samplers = <<SamplerBinding(2, "Linear")>>

(***************************************************************************)
(* Properties of the pre-computation of a convolution stage.               *)
(***************************************************************************)
\* The places in the shader text of the bound setup, of the setup of the
\* sampling position, of the declaration of the accumulator and of the
\* header of the per-pixel function.
BoundSetupsAt == { k \in 1 .. Len(StageCode) : "let" \in DOMAIN StageCode[k] /\ StageCode[k].let = "bound" }
PositionSetupsAt == { k \in 1 .. Len(StageCode) : "let" \in DOMAIN StageCode[k] /\ StageCode[k].let = "uv_pos" }
DeclarationsAt == { k \in 1 .. Len(StageCode) : "var" \in DOMAIN StageCode[k] }
HeadersAt == { k \in 1 .. Len(StageCode) : "open" \in DOMAIN StageCode[k] }

\* The pre-computation is written once, after the header and directly
\* before the first accumulation written: the bound setup when
\* needs_bound, the setup of the sampling position when needs_sampler, the
\* declaration.
PrecomputedOnce ==
    LET first == First(WrittenAddsAt)
        setups == (IF stage_source.needs_bound THEN 1 ELSE 0)
                    + (IF stage_source.needs_sampler THEN 1 ELSE 0)
    IN  /\ DeclarationsAt = { first - 1 }
        /\ Cardinality(BoundSetupsAt) = (IF stage_source.needs_bound THEN 1 ELSE 0)
        /\ Cardinality(PositionSetupsAt) = (IF stage_source.needs_sampler THEN 1 ELSE 0)
        /\ BoundSetupsAt \cup PositionSetupsAt = (first - 1 - setups) .. (first - 2)
        /\ \A b \in BoundSetupsAt, p \in PositionSetupsAt : b < p
        /\ \E h \in HeadersAt : h < first - 1 - setups

\* C26: in the shader text of a convolution pass whose body holds an
\* accumulation, the pre-computation is written exactly once, after the
\* header of the per-pixel function and directly before the first
\* accumulation, however many accumulations follow and whichever of them
\* have the declaration form.
C26_AsStated ==
    (StageOk /\ AccumulationsAt # {}) => PrecomputedOnce

\* Two accumulations, both of the declaration form: the declaration is
\* written before each.
C26_DeclaredTwice ==
    /\ StageOk
    /\ Cardinality(AccumulationsAt) = 2
    /\ Accumulation(1).decl /\ Accumulation(2).decl
    /\ Cardinality(DeclarationsAt) = 2

\* Two accumulations, none of the declaration form: no declaration is
\* written.
C26_NeverDeclared ==
    /\ StageOk
    /\ Cardinality(AccumulationsAt) = 2
    /\ ~Accumulation(1).decl /\ ~Accumulation(2).decl
    /\ DeclarationsAt = {} /\ BoundSetupsAt = {} /\ PositionSetupsAt = {}

(***************************************************************************)
(* The compiled form of a manifest that validate accepts.                  *)
(***************************************************************************)
\* validate returns Ok(()) for the manifest handed to compile.
Accepted == validate(raw) = Ok

\* compile has returned the pipeline of an accepted manifest.
AcceptedCompiled == Accepted /\ compile_pc = "done" /\ Compiled

\* The physical ids of a list of bindings of a compiled pass.
PhysicalIdsOf(bindings) == { bindings[k].physical_id : k \in 1 .. Len(bindings) }

\* Two logical textures of the pipeline share a physical texture.
SlotReused ==
    \E x, y \in DOMAIN texture_assignments :
        x # y /\ texture_assignments[x] = texture_assignments[y]

\* C27: in the compiled form of a manifest accepted by validate, the
\* outputs of every pass have physical ids that differ from those of the
\* pass's inputs and from one another, and none of them is the physical id
\* of SOURCE.
C27_NoPassReadsWhatItWrites ==
    AcceptedCompiled =>
        \A i \in 1 .. Len(compiled.pipeline.passes) :
            LET pass == compiled.pipeline.passes[i]
            IN  /\ PhysicalIdsOf(pass.output_textures) \cap PhysicalIdsOf(pass.input_textures) = {}
                /\ \A j, k \in 1 .. Len(pass.output_textures) :
                      j # k => pass.output_textures[j].physical_id # pass.output_textures[k].physical_id
                /\ SOURCE_ID \notin PhysicalIdsOf(pass.output_textures)

\* Three passes: the first writes A, the second reads A and writes B, the
\* third reads SOURCE and B and writes RESULT into the texture of A.
C27_Witness ==
    /\ AcceptedCompiled
    /\ Len(compiled.pipeline.passes) = 3
    /\ SlotReused
    /\ compiled.pipeline.passes[2].input_textures[1].logical_id = "A"
    /\ compiled.pipeline.passes[2].output_textures[1].logical_id = "B"
    /\ compiled.pipeline.passes[3].output_textures[1].physical_id
          = compiled.pipeline.passes[1].output_textures[1].physical_id

(***************************************************************************)
(* The compiled form of an accepted manifest, run.                         *)
(***************************************************************************)
\* The passes of the manifest that have an output of the given id.
WritingPasses(id) ==
    { i \in 1 .. Len(raw.passes) :
        \E o \in 1 .. Len(raw.passes[i].outputs) : raw.passes[i].outputs[o].id = id }

\* What a texture that holds the logical texture of the given id was written
\* by: the input texture for SOURCE, else the pass that has it as output.
ExpectedContent(id) ==
    IF id = "SOURCE" THEN {"SOURCE"} ELSE { raw.passes[i].id : i \in WritingPasses(id) }

\* C28: when the passes of the compiled form of a manifest accepted by
\* validate are dispatched in order, every input binding of every pass
\* finds its physical texture last written by the pass that has the
\* binding's logical texture as output, and the input texture itself for
\* SOURCE.
C28_ReadsWhatWasProduced ==
    (Accepted /\ exec_pc = "bound") =>
        \A i \in 1 .. Len(pass_reads) :
            \A k \in 1 .. Len(pass_reads[i]) :
                /\ Cardinality(ExpectedContent(pass_reads[i][k].logical_id)) = 1
                /\ pass_reads[i][k].found \in ExpectedContent(pass_reads[i][k].logical_id)

\* Three passes, all dispatched: the first writes A, the second reads A and
\* writes B, the third reads SOURCE and B and writes RESULT into the texture
\* that held A.
C28_Witness ==
    /\ Accepted /\ exec_pc = "bound"
    /\ Len(pass_reads) = 3
    /\ SlotReused
    /\ Len(pass_reads[3]) = 2
    /\ pass_reads[2][1].logical_id = "A"
    /\ pass_reads[2][1].found = "pass1"
    /\ pass_reads[3][2].logical_id = "B"
    /\ pass_reads[3][2].found = "pass2"
    /\ physical_texture_map[pass_reads[2][1].physical_id] = "pass3"

\* The ids of the bindings of the manifest, inputs and outputs.
BoundLogicalIds ==
    UNION { { raw.passes[i].inputs[k].id : k \in 1 .. Len(raw.passes[i].inputs) }
            \cup { raw.passes[i].outputs[k].id : k \in 1 .. Len(raw.passes[i].outputs) } :
            i \in 1 .. Len(raw.passes) }

\* The physical ids of the bindings of the returned pipeline.
BoundPhysicalIds ==
    UNION { PhysicalIdsOf(compiled.pipeline.passes[i].input_textures)
            \cup PhysicalIdsOf(compiled.pipeline.passes[i].output_textures) :
            i \in 1 .. Len(compiled.pipeline.passes) }

\* The ids of the returned physical texture list.
ListedPhysicalIds ==
    { compiled.pipeline.physical_textures[k].id : k \in 1 .. Len(compiled.pipeline.physical_textures) }

\* C29: for a manifest accepted by validate, compile does not abort, and
\* unless the loader fails it returns a pipeline that has the passes of the
\* manifest, by id and in order; every id of a binding of the manifest has
\* a physical assignment, and every physical id of a binding of the
\* pipeline is in its physical texture list.
C29_AcceptedCompiles ==
    Accepted =>
        /\ compile_pc # "panicked"
        /\ (compile_pc = "passes" /\ Len(shader_passes) < Len(raw.passes)) =>
              ~PassPanics(texture_assignments, NextPass)
        /\ compile_pc = "done" =>
              /\ Compiled
              /\ Len(compiled.pipeline.passes) = Len(raw.passes)
              /\ \A i \in 1 .. Len(raw.passes) : compiled.pipeline.passes[i].id = raw.passes[i].id
              /\ BoundLogicalIds \subseteq DOMAIN texture_assignments
              /\ BoundPhysicalIds \subseteq ListedPhysicalIds

\* Three passes returned: the first writes B, the second reads SOURCE and
\* B and writes A, the third reads A and writes RESULT into the texture
\* that held B: four logical textures in three physical ones.
C29_Witness ==
    /\ AcceptedCompiled
    /\ Len(compiled.pipeline.passes) = 3
    /\ raw.passes[2].inputs = <<In("SOURCE", 0), In("B", 1)>>
    /\ raw.passes[3].inputs = <<In("A", 0)>>
    /\ raw.passes[3].outputs = <<Out("RESULT", 2)>>
    /\ Cardinality(BoundLogicalIds) = 4
    /\ Cardinality(BoundPhysicalIds) = 3
    /\ Len(compiled.pipeline.physical_textures) = 3

(***************************************************************************)
(* The running scale map across the calls of MpvHook::new.                 *)
(***************************************************************************)
\* A step in which MpvHook::new is called.
HookCall == pass_index' = pass_index + 1

\* C30: a call of MpvHook::new that returns an error leaves the running
\* scale map as it was before the call, and the map changes in no other
\* way than by the insertion of the output name of a hook the call
\* returned, with the scale factor of that hook.
C30_MapChangesOnReturnedHookOnly ==
    [][ /\ (HookCall /\ hook'.kind = "Err") => scale_factor_map' = scale_factor_map
        /\ scale_factor_map' # scale_factor_map =>
              /\ HookCall
              /\ hook'.kind = "Ok"
              /\ scale_factor_map'
                    = MapInsert(scale_factor_map, hook'.hook.output, hook'.hook.scale_factor) ]_vars

\* The second call fails: the first block saved conv1 at scale 2, the second
\* binds conv2, which no block has saved, and would save conv2.  The map
\* holds conv1 and not conv2.
C30_Witness ==
    /\ pass_index = 2
    /\ hook.kind = "Err"
    /\ hook.error = <<"Unknown input texture: ", "conv2">>
    /\ SavedName = "conv2"
    /\ map_at_call = MapInsert(new_scale_factor_map, "conv1", 2)
    /\ scale_factor_map = map_at_call

\* A call fails in the loop over the lines: the block has a WIDTH line the
\* pattern does not match, after a block that saved conv1.
C30_WitnessInLoop ==
    /\ pass_index = 2
    /\ hook.kind = "Err"
    /\ \E k \in ScaleLinesAt : ~pass_source[k].matched
    /\ "conv1" \in DOMAIN map_at_call
    /\ scale_factor_map = map_at_call

====
